---- MODULE Spec2Model ----
(***************************************************************************)
(* A model of the type-dependency resolver and of the resolution caches    *)
(* of the Go-to-Java translation engine.                                   *)
(*                                                                         *)
(*   - TypeDependencyResolver (src/src/typeDependencyResolver.ts): the     *)
(*     depth-bounded walk over the type references of a unit.              *)
(*   - LspTypeResolver (lspTypeResolver.ts, in src/unnamed/part_003 from   *)
(*     line 143 on): resolveAtPosition and its three cache tables.         *)
(*   - TypeCache (src/src/typeCache.ts), TypeEnricher.enrichType           *)
(*     (typeEnricher.ts, src/unnamed/part_004), GoplsProvider              *)
(*     (src/src/goplsProvider.ts) and the edit handlers of                 *)
(*     src/src/hoverProvider.ts.                                           *)
(*                                                                         *)
(* Strings are sequences of tokens, so that concatenation and startsWith   *)
(* are computed rather than assumed.                                       *)
(***************************************************************************)
EXTENDS Naturals, Sequences, FiniteSets, TLC

(***************************************************************************)
(* Bounds of the model.                                                    *)
(***************************************************************************)
MaxFields == 2
MaxDepthBound == 3
MaxFailures == 1
StackCap == 6

(***************************************************************************)
(* Strings.                                                                *)
(***************************************************************************)
StartsWith(s, p) == Len(p) <= Len(s) /\ SubSeq(s, 1, Len(p)) = p

NoStr == << >>

(***************************************************************************)
(* The documents and the type names of the world the walk runs in.         *)
(***************************************************************************)
D0 == <<"a">>
D1 == <<"b">>
D2 == <<"a", "c">>
Docs == {D0, D1, D2}

TypeOrder == <<"A", "B", "C">>
Types == {TypeOrder[i] : i \in 1..Len(TypeOrder)}
LineOf(t) == CHOOSE i \in 1..Len(TypeOrder) : TypeOrder[i] = t

NoPosition == [line |-> 0, character |-> 0]

\* GoType (src/src/goParser.ts): name, map flag with key and value, package path.
\* hasPos tells whether the parser recorded a typePosition for the reference.
Named(n) == [name |-> <<n>>, isMap |-> FALSE, keyType |-> NoStr, valueType |-> NoStr,
             packagePath |-> NoStr]
MapOf(k, v) == [name |-> <<"Map">>, isMap |-> TRUE, keyType |-> <<k>>, valueType |-> <<v>>,
                packagePath |-> NoStr]

VARIABLES
    decls,              \* the declarations of the world: type name -> [doc, kind, fields]
    walkPc,             \* "idle" | "running" | "done" | "threw"
    maxDepth,           \* options.maxDepth of the running walk
    typesToResolve,     \* the top-level references collected from the origin unit
    topIdx,             \* how many of them the top-level loop has passed to resolveType
    stack,              \* the suspended resolveType calls, innermost last
    visited,            \* TypeDependencyResolver.visited
    externalStructs,    \* graph.externalStructs
    externalInterfaces, \* graph.externalInterfaces
    nodes,              \* graph.nodes
    queries,            \* history: the resolveAtPosition calls of the walk
    failures,           \* history: how many oracle or document failures happened
    earlier,            \* history: what an earlier walk over the same declarations
                        \*   returned: << >> until there is one
    other,              \* a second walk on the same TypeDependencyResolver: where it
                        \*   is in its top-level loop, and its graph
    goFileCache,        \* LspTypeResolver.goFileCache: uri -> the parsed document
    definitionCache,    \* LspTypeResolver.definitionCache: position key -> location
    docVersion,         \* the text version of each document (an edit raises it)
    stamp,              \* history: when, and at which text version, a key of the two
                        \*   tables above was cached
    now,                \* Date.now(), in milliseconds
    ticks,              \* history: how many times the clock has advanced
    typeCache,          \* TypeCache.cache: position key -> [info, timestamp]
    typeResolutionCache,\* LspTypeResolver.typeResolutionCache: "uri#Type" -> entry
    lastSet,            \* history: key -> time of its last set, while undisturbed
    invalidated,        \* history: the keys invalidated and not set again since
    lastGet,            \* history: the last read of a table and what it returned
    calls,              \* the oracle calls issued through GoplsProvider
    source,             \* the Go source handed to a parser, as its syntax
    parser,             \* the configured parser strategy: "regex" | "tree-sitter"
    genOptions,         \* the JavaGenerationOptions of the conversion
    parsed,             \* what the parser returned: << >> until it has run
    generated           \* what the generator returned: << >> until it has run

walkVars == <<decls, walkPc, maxDepth, typesToResolve, topIdx, stack, visited,
              externalStructs, externalInterfaces, nodes, queries, failures, earlier, other>>

lspVars == <<goFileCache, definitionCache, stamp>>

clockVars == <<now, ticks>>
ttlVars == <<typeCache, typeResolutionCache>>
historyVars == <<lastSet, invalidated, lastGet>>
genVars == <<source, parser, genOptions, parsed, generated>>
otherVars == <<docVersion, clockVars, ttlVars, historyVars, calls, genVars>>
vars == <<walkVars, lspVars, otherVars>>


(***************************************************************************)
(* The world: which document declares each type, as a struct or as an      *)
(* interface, and the type references of its fields (struct) or of its     *)
(* method parameters and returns (interface).                              *)
(***************************************************************************)
Kinds == {"struct", "interface"}

\* The references a declaration of type t may hold: the other types, and a map type.
RefChoices(t) == {Named(u) : u \in Types \ {t}} \cup {MapOf("string", "C")}

RECURSIVE SeqsUpTo(_, _)
SeqsUpTo(S, n) ==
    IF n = 0 THEN {<< >>}
    ELSE LET shorter == SeqsUpTo(S, n - 1)
         IN  shorter \cup {Append(q, x) : q \in {r \in shorter : Len(r) = n - 1}, x \in S}

NoRepeat(q) == \A i, j \in 1..Len(q) : i /= j => q[i] /= q[j]

FieldSeqs(t) == {q \in SeqsUpTo(RefChoices(t), MaxFields) : NoRepeat(q)}

\* The references of a declaration of kind k: an interface has at most one method type.
MemberSeqs(t, k) == IF k = "struct" THEN FieldSeqs(t) ELSE {q \in FieldSeqs(t) : Len(q) <= 1}

\* GoFileParser.parseField records a typePosition for every struct field; no parser
\* records one for an interface method's parameter or return type.
FieldPosition(t, i) == [line |-> LineOf(t), character |-> i]

\* The type name written at a position of a document, if a field's type is written there.
SiteName(doc, pos) ==
    IF \E t \in Types : /\ decls[t].doc = doc
                        /\ decls[t].kind = "struct"
                        /\ LineOf(t) = pos.line
                        /\ pos.character \in 1..Len(decls[t].fields)
    THEN LET t == CHOOSE u \in Types : /\ decls[u].doc = doc
                                       /\ decls[u].kind = "struct"
                                       /\ LineOf(u) = pos.line
                                       /\ pos.character \in 1..Len(decls[u].fields)
         IN  decls[t].fields[pos.character].name
    ELSE NoStr

(***************************************************************************)
(* TypeDependencyResolver: constants and helpers.                          *)
(***************************************************************************)
DefaultMaxDepth == 3

STDLIB_PACKAGES ==
    {"fmt", "io", "os", "net", "http", "context", "sync", "time",
     "strings", "bytes", "bufio", "encoding", "json", "xml",
     "errors", "log", "path", "filepath", "regexp", "sort",
     "strconv", "unicode", "crypto", "hash", "math", "reflect"}

BUILTIN_TYPES ==
    {<<"int">>, <<"int8">>, <<"int16">>, <<"int32">>, <<"int64">>,
     <<"uint">>, <<"uint8">>, <<"uint16">>, <<"uint32">>, <<"uint64">>,
     <<"float32">>, <<"float64">>, <<"bool">>, <<"string">>, <<"rune">>, <<"byte">>,
     <<"error">>, <<"interface{}">>, <<"any">>, <<"uintptr">>, <<"complex64">>,
     <<"complex128">>}

StripPrefix(s, p) == IF StartsWith(s, <<p>>) THEN Tail(s) ELSE s

getBaseTypeName(type) == StripPrefix(StripPrefix(StripPrefix(type.name, "*"), "[]"), "...")

makeTypeKey(typeName, packagePath, uri) ==
    IF packagePath /= NoStr THEN packagePath \o <<".">> \o typeName
    ELSE IF uri /= NoStr THEN uri \o <<"#">> \o typeName
    ELSE typeName

\* resolveQualifiedType: the alias before the first '.', or NoStr for an unqualified name.
HasDot(s) == \E i \in 1..Len(s) : s[i] = "."
resolveQualifiedType(typeName) ==
    IF HasDot(typeName)
    THEN LET dotIndex == CHOOSE i \in 1..Len(typeName) :
                             typeName[i] = "." /\ \A j \in 1..(i - 1) : typeName[j] /= "."
         IN  SubSeq(typeName, 1, dotIndex - 1)
    ELSE NoStr

\* options.resolveStdlib is left unset by every caller.
ResolveStdlib == FALSE

(***************************************************************************)
(* LspTypeResolver.resolveAtPosition, for one outcome of its three awaits. *)
(***************************************************************************)
Outcomes == {"ok", "hoverFail", "definitionFail", "readFail", "openFail"}

Digits == <<"0", "1", "2", "3", "4", "5", "6", "7", "8", "9">>

RECURSIVE ToStr(_)
ToStr(n) == IF n < 10 THEN <<Digits[n + 1]>>
            ELSE ToStr(n \div 10) \o <<Digits[(n % 10) + 1]>>

makePositionKey(uri, position) ==
    uri \o <<":">> \o ToStr(position.line) \o <<":">> \o ToStr(position.character)

Undefined == [found |-> FALSE, sourceUri |-> NoStr, hasLocation |-> FALSE,
              hasGoFile |-> FALSE, struct |-> "", iface |-> ""]

\* The declaration a hover at (document, position) names, "" when there is none.
HoverTypeName(document, position) ==
    LET n == SiteName(document, position)
    IN  IF Len(n) = 1 /\ n[1] \in Types THEN n[1] ELSE ""

\* GoplsProvider.getHoverInfo: a timeout or an error is caught and gives undefined.
getHoverInfo(document, position, outcome) ==
    IF outcome = "hoverFail" THEN "" ELSE HoverTypeName(document, position)

\* LspTypeResolver.getTypeDefinition: the cached location, else the oracle's answer.
getTypeDefinition(document, position, typeName, outcome) ==
    LET key == makePositionKey(document, position)
    IN  IF key \in DOMAIN definitionCache THEN definitionCache[key]
        ELSE IF outcome = "definitionFail" THEN NoStr
        ELSE decls[typeName].doc

\* LspTypeResolver.getGoFile: whether a parsed document comes back.
getGoFile(uri, outcome) == uri \in DOMAIN goFileCache \/ outcome /= "readFail"

resolveAtPosition(document, position, outcome) ==
    LET typeName == getHoverInfo(document, position, outcome)
    IN  IF typeName = "" THEN Undefined
        ELSE LET location == getTypeDefinition(document, position, typeName, outcome)
                 goFile   == location /= NoStr /\ getGoFile(location, outcome)
             IN  [found       |-> TRUE,
                  sourceUri   |-> location,
                  hasLocation |-> location /= NoStr,
                  hasGoFile   |-> goFile,
                  struct      |-> IF goFile /\ decls[typeName].kind = "struct"
                                  THEN typeName ELSE "",
                  iface       |-> IF goFile /\ decls[typeName].kind = "interface"
                                  THEN typeName ELSE ""]

\* The outcomes that can happen for a query: a cached location or document cannot fail.
CanHappen(document, position, outcome) ==
    LET typeName == HoverTypeName(document, position)
        key      == makePositionKey(document, position)
    IN  CASE outcome = "ok" -> TRUE
          [] outcome = "hoverFail" -> TRUE
          [] outcome = "definitionFail" ->
                 typeName /= "" /\ key \notin DOMAIN definitionCache
          [] outcome = "readFail" ->
                 typeName /= "" /\ decls[typeName].doc \notin DOMAIN goFileCache
          [] outcome = "openFail" -> typeName /= ""

\* The cache writes of resolveAtPosition.
DefinitionCacheAfter(document, position, outcome) ==
    LET typeName == getHoverInfo(document, position, outcome)
        key      == makePositionKey(document, position)
    IN  IF typeName = "" \/ key \in DOMAIN definitionCache \/ outcome = "definitionFail"
        THEN definitionCache
        ELSE [k \in DOMAIN definitionCache \cup {key} |->
                 IF k = key THEN decls[typeName].doc ELSE definitionCache[k]]

GoFileCacheAfter(document, position, outcome) ==
    LET typeName == getHoverInfo(document, position, outcome)
        location == IF typeName = "" THEN NoStr
                    ELSE getTypeDefinition(document, position, typeName, outcome)
    IN  IF location = NoStr \/ location \in DOMAIN goFileCache \/ outcome = "readFail"
        THEN goFileCache
        ELSE [u \in DOMAIN goFileCache \cup {location} |->
                 IF u = location THEN docVersion[location] ELSE goFileCache[u]]

\* The document a key of goFileCache or of definitionCache belongs to.
DocOfKey(k) ==
    CHOOSE d \in Docs : k = d \/ StartsWith(k, d \o <<":">>) \/ StartsWith(k, d \o <<"#">>)

\* The history of the two tables once they hold the keys ks: a new key is stamped
\* with the present time and with the present text version of its document.
Stamped(ks) ==
    [k \in ks |-> IF k \in DOMAIN stamp THEN stamp[k]
                  ELSE [at |-> now, version |-> docVersion[DocOfKey(k)]]]

(***************************************************************************)
(* TypeDependencyResolver.resolveFileDependencies and resolveType.         *)
(***************************************************************************)
IsKind(doc, k, t) == decls[t].doc = doc /\ decls[t].kind = k

\* The references of one declaration, each with the position its parser recorded.
RefsOf(t) ==
    [i \in 1..Len(decls[t].fields) |->
        [type     |-> decls[t].fields[i],
         hasPos   |-> decls[t].kind = "struct",
         position |-> IF decls[t].kind = "struct" THEN FieldPosition(t, i) ELSE NoPosition]]

RECURSIVE RefsOfAll(_)
RefsOfAll(ts) == IF ts = << >> THEN << >> ELSE RefsOf(Head(ts)) \o RefsOfAll(Tail(ts))

\* Lines 108-143: the struct fields, then the interface methods' types, of the unit.
CollectTypes(doc) ==
    RefsOfAll(SelectSeq(TypeOrder, LAMBDA t : IsKind(doc, "struct", t)))
        \o RefsOfAll(SelectSeq(TypeOrder, LAMBDA t : IsKind(doc, "interface", t)))

NewCall(type, document, position, depth, currentUri) ==
    [type |-> type, document |-> document, position |-> position, depth |-> depth,
     currentUri |-> currentUri]

CallKey(c) == makeTypeKey(getBaseTypeName(c.type), c.type.packagePath, c.currentUri)

\* A resolveType that lost its depth bound and its visited check.
ReturnsEarlyBuiltinOnly(c, md, vis) == getBaseTypeName(c.type) \in BUILTIN_TYPES

\* A resolveType without the test of its depth.
ReturnsEarlyAtAnyDepth(c, md, vis) ==
    \/ getBaseTypeName(c.type) \in BUILTIN_TYPES
    \/ CallKey(c) \in vis

\* Lines 222-238: the early returns of resolveType.
ReturnsEarly(c, md, vis) ==
    \/ c.depth > md
    \/ getBaseTypeName(c.type) \in BUILTIN_TYPES
    \/ CallKey(c) \in vis

\* Lines 241-251: a standard-library type is marked visited and left unresolved.
SkipsStdlib(c) ==
    LET alias == resolveQualifiedType(getBaseTypeName(c.type))
    IN  ~ResolveStdlib /\ alias /= NoStr /\ Len(alias) = 1 /\ alias[1] \in STDLIB_PACKAGES

\* An append without the check for an entry of the same name.
AddExternalNoDedup(list, name, sourceUri, currentUri) ==
    IF sourceUri /= NoStr /\ sourceUri /= currentUri
    THEN Append(list, [name |-> name, uri |-> sourceUri])
    ELSE list

\* Lines 273-278 and 309-314: a declaration from another file than currentUri is
\* appended unless one of the same name is already there.
AddExternal(list, name, sourceUri, currentUri) ==
    IF sourceUri /= NoStr /\ sourceUri /= currentUri
       /\ ~\E i \in 1..Len(list) : list[i].name = name
    THEN Append(list, [name |-> name, uri |-> sourceUri])
    ELSE list

\* Lines 280-301 and 316-354: the nested calls for the members that have a position.
MemberCalls(c, resolved, t) ==
    LET withPos == SelectSeq(RefsOf(t), LAMBDA r : r.hasPos)
        nestedDoc == IF resolved.hasLocation THEN resolved.sourceUri ELSE c.document
        nestedUri == IF resolved.sourceUri /= NoStr THEN resolved.sourceUri ELSE c.currentUri
    IN  [i \in 1..Len(withPos) |->
            NewCall(withPos[i].type, nestedDoc, withPos[i].position, c.depth + 1, nestedUri)]

\* Lines 362-390: the calls for the key and the value of a map type.
MapCalls(c) ==
    IF c.type.isMap
    THEN (IF c.type.keyType /= NoStr
          THEN <<NewCall(Named(c.type.keyType[1]), c.document, c.position,
                         c.depth + 1, c.currentUri)>>
          ELSE << >>)
         \o
         (IF c.type.valueType /= NoStr
          THEN <<NewCall(Named(c.type.valueType[1]), c.document, c.position,
                         c.depth + 1, c.currentUri)>>
          ELSE << >>)
    ELSE << >>

\* A resolveType whose try block has no catch.
CatchRethrows == FALSE

\* Line 358: the catch of resolveType swallows what the try block threw.
CatchResumes == TRUE

Top == stack[Len(stack)]
Popped == SubSeq(stack, 1, Len(stack) - 1)

\* A call of resolveType runs to its first await: it returns at once, or it marks the
\* type visited and suspends on resolveAtPosition.
CallResolveType(c, callers) ==
    IF ReturnsEarly(c, maxDepth, visited)
    THEN /\ stack' = callers
         /\ visited' = visited
    ELSE /\ Len(callers) < StackCap
         /\ visited' = visited \cup {CallKey(c)}
         /\ stack' = IF SkipsStdlib(c) THEN callers
                     ELSE Append(callers, [call |-> c, awaiting |-> TRUE, todo |-> << >>,
                                           node |-> Undefined])

MaxDepths == (0..MaxDepthBound) \cup {DefaultMaxDepth}

\* resolveFileDependencies, lines 94-143.
ResolveFileDependencies(md) ==
    /\ walkPc = "idle"
    /\ walkPc' = "running"
    /\ maxDepth' = md
    /\ visited' = {}
    /\ externalStructs' = << >>
    /\ externalInterfaces' = << >>
    /\ nodes' = << >>
    /\ typesToResolve' = LET refs == CollectTypes(D0)
                         IN  [i \in 1..Len(refs) |->
                                 NewCall(refs[i].type, D0,
                                         IF refs[i].hasPos THEN refs[i].position
                                         ELSE NoPosition,
                                         0, D0)]
    /\ topIdx' = 0
    /\ UNCHANGED <<decls, earlier, other, stack, queries, failures, lspVars, otherVars>>

\* Lines 146-158: the next top-level reference is passed to resolveType.
CallTop ==
    /\ walkPc = "running"
    /\ stack = << >>
    /\ topIdx < Len(typesToResolve)
    /\ topIdx' = topIdx + 1
    /\ CallResolveType(typesToResolve[topIdx + 1], << >>)
    /\ UNCHANGED <<decls, earlier, other, walkPc, maxDepth, typesToResolve, externalStructs,
                   externalInterfaces, nodes, queries, failures, lspVars, otherVars>>

\* Lines 260-360: resolveAtPosition returns (or its result's document cannot be opened).
OracleReturn(outcome) ==
    /\ walkPc = "running"
    /\ stack /= << >>
    /\ Top.awaiting
    /\ CanHappen(Top.call.document, Top.call.position, outcome)
    /\ outcome = "ok" \/ failures < MaxFailures
    /\ LET c        == Top.call
           resolved == resolveAtPosition(c.document, c.position, outcome)
           t        == IF resolved.struct /= "" THEN resolved.struct ELSE resolved.iface
           thrown   == outcome = "openFail" /\ t /= "" /\ resolved.hasLocation
           children == (IF t /= "" /\ resolved.hasGoFile /\ ~thrown
                        THEN MemberCalls(c, resolved, t) ELSE << >>) \o MapCalls(c)
       IN  /\ externalStructs' =
                 IF resolved.struct /= ""
                 THEN AddExternal(externalStructs, resolved.struct, resolved.sourceUri,
                                  c.currentUri)
                 ELSE externalStructs
           /\ externalInterfaces' =
                 IF resolved.iface /= ""
                 THEN AddExternal(externalInterfaces, resolved.iface, resolved.sourceUri,
                                  c.currentUri)
                 ELSE externalInterfaces
           /\ IF thrown /\ ~CatchResumes
              THEN walkPc' = "threw" /\ stack' = << >>
              ELSE /\ walkPc' = walkPc
                   /\ stack' = Append(Popped, [call |-> c, awaiting |-> FALSE,
                                               todo |-> children, node |-> resolved])
           /\ queries' = Append(queries, [name |-> getBaseTypeName(c.type),
                                          document |-> c.document,
                                          position |-> c.position,
                                          depth |-> c.depth,
                                          currentUri |-> c.currentUri,
                                          key |-> CallKey(c),
                                          outcome |-> outcome])
           /\ failures' = IF outcome = "ok" THEN failures ELSE failures + 1
           /\ definitionCache' = DefinitionCacheAfter(c.document, c.position, outcome)
           /\ goFileCache' = GoFileCacheAfter(c.document, c.position, outcome)
           /\ stamp' = Stamped(DOMAIN DefinitionCacheAfter(c.document, c.position, outcome)
                                  \cup DOMAIN GoFileCacheAfter(c.document, c.position, outcome))
    /\ UNCHANGED <<decls, earlier, other, maxDepth, typesToResolve, topIdx, visited, nodes, otherVars>>

\* The next nested call of the suspended resolveType.
CallChild ==
    /\ walkPc = "running"
    /\ stack /= << >>
    /\ ~Top.awaiting
    /\ Top.todo /= << >>
    /\ CallResolveType(Head(Top.todo), Append(Popped, [Top EXCEPT !.todo = Tail(@)]))
    /\ UNCHANGED <<decls, earlier, other, walkPc, maxDepth, typesToResolve, topIdx, externalStructs,
                   externalInterfaces, nodes, queries, failures, lspVars, otherVars>>

\* Lines 392-394: the node is added to the graph and resolveType returns.
Finish ==
    /\ walkPc = "running"
    /\ stack /= << >>
    /\ ~Top.awaiting
    /\ Top.todo = << >>
    /\ nodes' = Append(nodes, [name |-> getBaseTypeName(Top.call.type),
                               struct |-> Top.node.struct, iface |-> Top.node.iface,
                               sourceUri |-> Top.node.sourceUri,
                               key |-> CallKey(Top.call)])
    /\ stack' = Popped
    /\ UNCHANGED <<decls, earlier, other, walkPc, maxDepth, typesToResolve, topIdx, visited,
                   externalStructs, externalInterfaces, queries, failures, lspVars,
                   otherVars>>

\* Line 160: the graph is returned.
ReturnGraph ==
    /\ walkPc = "running"
    /\ stack = << >>
    /\ topIdx = Len(typesToResolve)
    /\ walkPc' = "done"
    /\ UNCHANGED <<decls, earlier, other, maxDepth, typesToResolve, topIdx, stack, visited,
                   externalStructs, externalInterfaces, nodes, queries, failures,
                   lspVars, otherVars>>

AllDocs == Docs

NoGet == [table |-> "", key |-> NoStr, at |-> 0, hit |-> FALSE,
          cachedAt |-> 0, cachedVersion |-> 0, version |-> 0]

World(fa, fb, kc, dc, fc) ==
    [t \in Types |->
        CASE t = "A" -> [doc |-> D0, kind |-> "struct", fields |-> fa]
          [] t = "B" -> [doc |-> D1, kind |-> "struct", fields |-> fb]
          [] t = "C" -> [doc |-> dc, kind |-> kc, fields |-> fc]]

Contains(q, x) == \E i \in 1..Len(q) : q[i] = x

\* no second walk has been started
NoOther == [pc |-> "idle", idx |-> 0, externalStructs |-> << >>,
            externalInterfaces |-> << >>]

\* The state after construction: no walk under way, every table empty.
Constructed ==
    /\ walkPc = "idle"
    /\ maxDepth = DefaultMaxDepth
    /\ typesToResolve = << >>
    /\ topIdx = 0
    /\ stack = << >>
    /\ visited = {}
    /\ externalStructs = << >>
    /\ externalInterfaces = << >>
    /\ nodes = << >>
    /\ queries = << >>
    /\ failures = 0
    /\ earlier = << >>
    /\ other = NoOther
    /\ goFileCache = << >>
    /\ definitionCache = << >>
    /\ docVersion = [d \in AllDocs |-> 0]
    /\ stamp = << >>
    /\ now = 0
    /\ ticks = 0
    /\ typeCache = << >>
    /\ typeResolutionCache = << >>
    /\ lastSet = << >>
    /\ invalidated = {}
    /\ lastGet = NoGet
    /\ calls = << >>

\* no conversion has been requested
NoConversion ==
    /\ source = << >>
    /\ parser = "tree-sitter"
    /\ genOptions = << >>
    /\ parsed = << >>
    /\ generated = << >>

Init ==
    /\ \E fa \in FieldSeqs("A"), fb \in FieldSeqs("B"), kc \in Kinds, dc \in {D1, D2} :
          \E fc \in MemberSeqs("C", kc) : decls = World(fa, fb, kc, dc, fc)
    /\ Constructed
    /\ NoConversion

\* The workspaces whose type graph has the cycle A -> B -> A.
CyclicInit ==
    /\ \E fa \in FieldSeqs("A"), fb \in FieldSeqs("B") :
          /\ Contains(fa, Named("B")) /\ ~Contains(fa, MapOf("string", "C"))
          /\ Contains(fb, Named("A")) /\ ~Contains(fb, MapOf("string", "C"))
          /\ decls = World(fa, fb, "struct", D2, <<Named("A")>>)
    /\ Constructed
    /\ NoConversion

Next ==
    \/ \E md \in MaxDepths : ResolveFileDependencies(md)
    \/ CallTop
    \/ \E outcome \in Outcomes : OracleReturn(outcome)
    \/ CallChild
    \/ Finish
    \/ ReturnGraph

Spec == Init /\ [][Next]_vars

\* The scheduler resumes a suspended walk whenever its awaited call has settled.
FairSpec == CyclicInit /\ [][Next]_vars /\ WF_vars(Next)

(***************************************************************************)
(* Claims about the walk.                                                  *)
(***************************************************************************)
Names(list) == {list[i].name : i \in 1..Len(list)}
Count(list, name) == Cardinality({i \in 1..Len(list) : list[i].name = name})
Externals == externalStructs \o externalInterfaces

\* Scenario 4: struct A (origin) has a field of type B, struct B (another document)
\* has a field of type A, maxDepth is 2 and every oracle query succeeds.
Scenario4 ==
    /\ decls["A"].fields = <<Named("B")>>
    /\ decls["B"].fields = <<Named("A")>>
    /\ maxDepth = 2
    /\ failures = 0
    /\ walkPc = "done"

\* C1 (as claimed): in scenario 4 the output holds B exactly once and not A, and no
\* declaration of the origin document is ever in externalStructs/externalInterfaces.
C1_OriginNeverExternal ==
    /\ Scenario4 => Count(externalStructs, "B") = 1 /\ "A" \notin Names(externalStructs)
    /\ \A i \in 1..Len(Externals) : Externals[i].uri /= D0

\* The declaration a query matched: its outcome left the defining document parsed.
Matched(q) ==
    IF q.outcome \in {"ok", "openFail"} THEN HoverTypeName(q.document, q.position) ELSE ""

\* C2 (as claimed): every reference resolved to a declaration of another document
\* than the origin has that declaration in the output.
C2_ExternalMatchIsOutput ==
    \A i \in 1..Len(queries) :
        LET t == Matched(queries[i])
        IN  (t /= "" /\ decls[t].doc /= D0) => t \in Names(Externals)

\* C3: resolve terminates, on cyclic type graphs too.
C3_ResolveTerminates == (walkPc = "running") ~> (walkPc = "done")

\* A walk over a cyclic graph that has returned with B in its output.
C3_Witness ==
    /\ walkPc = "done"
    /\ Named("B") \in {decls["A"].fields[i] : i \in 1..Len(decls["A"].fields)}
    /\ Named("A") \in {decls["B"].fields[i] : i \in 1..Len(decls["B"].fields)}
    /\ "B" \in Names(externalStructs)

\* C4: externalStructs and externalInterfaces never hold a declaration twice.
C4_NoDuplicateExternal ==
    /\ \A i, j \in 1..Len(externalStructs) :
          externalStructs[i] = externalStructs[j] => i = j
    /\ \A i, j \in 1..Len(externalInterfaces) :
          externalInterfaces[i] = externalInterfaces[j] => i = j

\* C is in the output and was matched from reference sites of two documents.
C4_Witness ==
    /\ "C" \in Names(Externals)
    /\ \E i, j \in 1..Len(queries) :
          /\ Matched(queries[i]) = "C" /\ Matched(queries[j]) = "C"
          /\ queries[i].document /= queries[j].document

\* The outcomes in which the hover, the definition query or the read of the defining
\* document by getGoFile failed.
FailedLookup == {"hoverFail", "definitionFail", "readFail"}

Entered(c) ==
    \/ c.depth > maxDepth
    \/ getBaseTypeName(c.type) \in BUILTIN_TYPES
    \/ CallKey(c) \in visited

QueryCall(q) == NewCall(Named(q.name[1]), q.document, q.position, q.depth, q.currentUri)

StackWithinDepth == Len(stack) <= maxDepth + 1 /\ Len(stack) < StackCap

(***************************************************************************)
(* The two tables with a time to live: TypeCache (typeCache.ts) and        *)
(* LspTypeResolver.typeResolutionCache, called by an arbitrary client.     *)
(***************************************************************************)
TTL_MS == 5 * 60 * 1000

MaxTicks == 3

CacheDocs == {D0, D2}
CachePositions == {NoPosition}
CacheTypeNames == {<<"A">>}

makeKey(uri, line, character) ==
    uri \o <<":">> \o ToStr(line) \o <<":">> \o ToStr(character)

makeTypeCacheKey(uri, typeName) == uri \o <<"#">> \o typeName

PositionKeysOf(uri) == {makeKey(uri, p.line, p.character) : p \in CachePositions}
TypeKeysOf(uri) == {makeTypeCacheKey(uri, n) : n \in CacheTypeNames}
TypeCacheKeys == UNION {PositionKeysOf(d) : d \in CacheDocs}
TypeResolutionKeys == UNION {TypeKeysOf(d) : d \in CacheDocs}

Remove(cache, ks) == [k \in DOMAIN cache \ ks |-> cache[k]]
Put(cache, key, entry) ==
    [k \in DOMAIN cache \cup {key} |-> IF k = key THEN entry ELSE cache[k]]

\* An expiry test that counts an entry of age TTL_MS as expired.
ExpiredAtTtl(entry, t) == t - entry.timestamp >= TTL_MS

\* typeCache.ts line 47 and line 109: the expiry test of TypeCache.
Expired(entry, t) == t - entry.timestamp > TTL_MS

\* part_003 line 503: the expiry test of getFromTypeCache.
TypeResolutionExpired(entry, t) == t - entry.timestamp > TTL_MS

\* What TypeCache.get and getFromTypeCache return at the present time.
getHit(key) == key \in DOMAIN typeCache /\ ~Expired(typeCache[key], now)
getFromTypeCacheHit(key) ==
    key \in DOMAIN typeResolutionCache /\ ~TypeResolutionExpired(typeResolutionCache[key], now)

\* A deletion by exact key instead of by prefix.
KeysEqualTo(cache, uri) == {k \in DOMAIN cache : k = uri}

\* typeCache.ts lines 70-75: the keys TypeCache.invalidate deletes.
KeysOfDocument(cache, uri) == {k \in DOMAIN cache : StartsWith(k, uri \o <<":">>)}

\* part_003 lines 455-459: the keys invalidateDocument deletes from typeResolutionCache.
KeysStartingWith(cache, uri) == {k \in DOMAIN cache : StartsWith(k, uri)}

\* The record of one read.
Read(table, key, cache, hit) ==
    [table |-> table, key |-> key, at |-> now, hit |-> hit,
     cachedAt |-> IF hit THEN cache[key].timestamp ELSE 0,
     cachedVersion |-> IF hit THEN cache[key].info ELSE 0,
     version |-> docVersion[DocOfKey(key)]]

Entry(uri) == [info |-> docVersion[uri], timestamp |-> now]

\* TypeCache.get, lines 38-53.
TypeCacheGet(uri, position) ==
    LET key == makeKey(uri, position.line, position.character)
    IN  /\ lastGet' = Read("typeCache", key, typeCache, getHit(key))
        /\ typeCache' = IF key \in DOMAIN typeCache /\ ~getHit(key)
                        THEN Remove(typeCache, {key}) ELSE typeCache
        /\ UNCHANGED <<walkVars, lspVars, docVersion, clockVars, typeResolutionCache,
                       lastSet, invalidated, calls, genVars>>

\* TypeCache.set, lines 58-64.
TypeCacheSet(uri, position) ==
    LET key == makeKey(uri, position.line, position.character)
    IN  /\ typeCache' = Put(typeCache, key, Entry(uri))
        /\ lastSet' = Put(lastSet, key, now)
        /\ invalidated' = invalidated \ {key}
        /\ lastGet' = NoGet
        /\ UNCHANGED <<walkVars, lspVars, docVersion, clockVars, typeResolutionCache, calls, genVars>>

\* TypeCache.invalidate, lines 69-76.
TypeCacheInvalidate(uri) ==
    /\ typeCache' = Remove(typeCache, KeysOfDocument(typeCache, uri))
    /\ lastSet' = Remove(lastSet, TypeCacheKeys)
    /\ invalidated' = invalidated \cup PositionKeysOf(uri)
    /\ lastGet' = NoGet
    /\ UNCHANGED <<walkVars, lspVars, docVersion, clockVars, typeResolutionCache, calls, genVars>>

\* TypeCache.clear, lines 81-83.
TypeCacheClear ==
    /\ typeCache' = << >>
    /\ lastSet' = Remove(lastSet, TypeCacheKeys)
    /\ lastGet' = NoGet
    /\ UNCHANGED <<walkVars, lspVars, docVersion, clockVars, typeResolutionCache,
                   invalidated, calls, genVars>>

\* TypeCache.cleanup, lines 106-113.
TypeCacheCleanup ==
    /\ typeCache' = Remove(typeCache, {k \in DOMAIN typeCache : Expired(typeCache[k], now)})
    /\ lastGet' = NoGet
    /\ UNCHANGED <<walkVars, lspVars, docVersion, clockVars, typeResolutionCache,
                   lastSet, invalidated, calls, genVars>>

\* LspTypeResolver.getFromTypeCache, part_003 lines 496-509.
GetFromTypeCache(key) ==
    /\ lastGet' = Read("typeResolutionCache", key, typeResolutionCache,
                       getFromTypeCacheHit(key))
    /\ typeResolutionCache' =
           IF key \in DOMAIN typeResolutionCache /\ ~getFromTypeCacheHit(key)
           THEN Remove(typeResolutionCache, {key}) ELSE typeResolutionCache
    /\ UNCHANGED <<walkVars, lspVars, docVersion, clockVars, typeCache,
                   lastSet, invalidated, calls, genVars>>

\* LspTypeResolver.setTypeCache, part_003 lines 511-516.
SetTypeCache(key) ==
    /\ typeResolutionCache' = Put(typeResolutionCache, key, Entry(DocOfKey(key)))
    /\ lastSet' = Put(lastSet, key, now)
    /\ invalidated' = invalidated \ {key}
    /\ lastGet' = NoGet
    /\ UNCHANGED <<walkVars, lspVars, docVersion, clockVars, typeCache, calls, genVars>>

\* LspTypeResolver.invalidateDocument, part_003 lines 442-460.
InvalidateDocument(uri) ==
    /\ goFileCache' = Remove(goFileCache, {uri})
    /\ definitionCache' = Remove(definitionCache, KeysOfDocument(definitionCache, uri))
    /\ typeResolutionCache' =
           Remove(typeResolutionCache, KeysStartingWith(typeResolutionCache, uri))
    /\ stamp' = [k \in DOMAIN goFileCache' \cup DOMAIN definitionCache' |-> stamp[k]]
    /\ lastSet' = Remove(lastSet, TypeResolutionKeys)
    /\ invalidated' = invalidated \cup TypeKeysOf(uri)
    /\ lastGet' = NoGet
    /\ UNCHANGED <<walkVars, docVersion, clockVars, typeCache, calls, genVars>>

\* LspTypeResolver.clearAllCaches, part_003 lines 465-469.
ClearAllCaches ==
    /\ goFileCache' = << >>
    /\ definitionCache' = << >>
    /\ typeResolutionCache' = << >>
    /\ stamp' = << >>
    /\ lastSet' = Remove(lastSet, TypeResolutionKeys)
    /\ lastGet' = NoGet
    /\ UNCHANGED <<walkVars, docVersion, clockVars, typeCache, invalidated, calls, genVars>>

\* A timer armed one millisecond too long.
TimerLate(c) == c.start + c.timeoutMs + 1

\* goplsProvider.ts lines 68 and 100: setTimeout(reject, timeoutMs), armed when the
\* call starts. A timer that is due fires before the clock moves on.
TimerDue(c) == c.start + c.timeoutMs

\* Time passes.
Tick(dt) ==
    /\ ticks < MaxTicks
    /\ \A i \in 1..Len(calls) : calls[i].status = "pending" => now + dt <= TimerDue(calls[i])
    /\ now' = now + dt
    /\ ticks' = ticks + 1
    /\ UNCHANGED <<walkVars, lspVars, docVersion, ttlVars, historyVars, calls, genVars>>

\* One workspace: A in the origin document refers to C, C in the third document to A.
CacheInit ==
    /\ decls = World(<<Named("C")>>, << >>, "struct", D2, <<Named("A")>>)
    /\ Constructed
    /\ NoConversion

TtlNext ==
    \/ \E d \in CacheDocs, p \in CachePositions : TypeCacheGet(d, p)
    \/ \E d \in CacheDocs, p \in CachePositions : TypeCacheSet(d, p)
    \/ \E d \in CacheDocs : TypeCacheInvalidate(d)
    \/ TypeCacheClear
    \/ TypeCacheCleanup
    \/ \E k \in TypeResolutionKeys : GetFromTypeCache(k)
    \/ \E k \in TypeResolutionKeys : SetTypeCache(k)
    \/ \E d \in CacheDocs : InvalidateDocument(d)
    \/ ClearAllCaches
    \/ \E dt \in {1, TTL_MS} : Tick(dt)

TtlSpec == CacheInit /\ [][TtlNext]_vars

ReadHit(k) == IF k \in TypeCacheKeys THEN getHit(k) ELSE getFromTypeCacheHit(k)

\* C5 (as claimed): an entry set at time T and left alone is a hit for reads before
\* T + TTL and a miss for reads at T + TTL or later.
C5_MissFromTtl ==
    /\ \A k \in DOMAIN lastSet : ReadHit(k) <=> now < lastSet[k] + TTL_MS
    /\ (lastGet.table /= "" /\ lastGet.key \in DOMAIN lastSet)
           => (lastGet.hit <=> lastGet.at < lastSet[lastGet.key] + TTL_MS)

\* C5 (amended): an entry set at time T and left alone is a hit for reads up to and
\* including T + TTL and a miss for reads after T + TTL.
C5_MissAfterTtl ==
    /\ \A k \in DOMAIN lastSet : ReadHit(k) <=> now <= lastSet[k] + TTL_MS
    /\ (lastGet.table /= "" /\ lastGet.key \in DOMAIN lastSet)
           => (lastGet.hit <=> lastGet.at <= lastSet[lastGet.key] + TTL_MS)

\* A read at exactly T + TTL that returned the entry.
C5_Witness ==
    /\ lastGet.table /= "" /\ lastGet.hit
    /\ lastGet.key \in DOMAIN lastSet
    /\ lastGet.at = lastSet[lastGet.key] + TTL_MS

\* C7: after invalidate(d) a get for a key derived from d, by position or by type
\* name, is a miss until that key is set again.
C7_InvalidatedIsMiss ==
    /\ \A k \in invalidated : ~ReadHit(k)
    /\ (lastGet.table /= "" /\ lastGet.key \in invalidated) => ~lastGet.hit

\* A read of an invalidated key while another document's entry is still cached.
C7_Witness ==
    /\ lastGet.table /= "" /\ lastGet.key \in invalidated /\ ~lastGet.hit
    /\ \E k \in DOMAIN typeCache \cup DOMAIN typeResolutionCache : ReadHit(k)

(***************************************************************************)
(* The extension as it is wired: the lookups of LspTypeResolver and of     *)
(* TypeEnricher, and the two document event handlers of activate.          *)
(***************************************************************************)
MaxEdits == 1

\* The positions of a document at which a struct field's type is written.
Sites(document) ==
    {FieldPosition(t, i) : t \in Types, i \in 1..MaxFields} \cap
        {p \in [line : 1..Len(TypeOrder), character : 1..MaxFields] :
            HoverTypeName(document, p) /= ""}

\* LspTypeResolver.getGoFile, part_003 lines 307-324; ok: the document can be opened.
CallGetGoFile(uri, ok) ==
    /\ lastGet' = [table |-> "goFileCache", key |-> uri, at |-> now,
                   hit |-> uri \in DOMAIN goFileCache,
                   cachedAt |-> IF uri \in DOMAIN goFileCache THEN stamp[uri].at ELSE 0,
                   cachedVersion |-> IF uri \in DOMAIN goFileCache THEN goFileCache[uri] ELSE 0,
                   version |-> docVersion[uri]]
    /\ goFileCache' = IF uri \notin DOMAIN goFileCache /\ ok
                      THEN Put(goFileCache, uri, docVersion[uri]) ELSE goFileCache
    /\ stamp' = Stamped(DOMAIN goFileCache' \cup DOMAIN definitionCache)
    /\ UNCHANGED <<walkVars, definitionCache, docVersion, clockVars, ttlVars,
                   lastSet, invalidated, calls, genVars>>

\* LspTypeResolver.getTypeDefinition, part_003 lines 276-292; ok: the oracle answers.
CallGetTypeDefinition(document, position, ok) ==
    LET key     == makePositionKey(document, position)
        outcome == IF ok THEN "ok" ELSE "definitionFail"
    IN  /\ lastGet' = [table |-> "definitionCache", key |-> key, at |-> now,
                       hit |-> key \in DOMAIN definitionCache,
                       cachedAt |-> IF key \in DOMAIN definitionCache THEN stamp[key].at ELSE 0,
                       cachedVersion |-> IF key \in DOMAIN definitionCache
                                         THEN stamp[key].version ELSE 0,
                       version |-> docVersion[document]]
        /\ definitionCache' = DefinitionCacheAfter(document, position, outcome)
        /\ stamp' = Stamped(DOMAIN goFileCache \cup DOMAIN definitionCache')
        /\ UNCHANGED <<walkVars, goFileCache, docVersion, clockVars, ttlVars,
                       lastSet, invalidated, calls, genVars>>

\* TypeEnricher.enrichType, part_004 lines 61-89, its oracle call answered in time
\* (ok) or not.
CallEnrichType(uri, position, ok) ==
    LET key == makeKey(uri, position.line, position.character)
    IN  /\ lastGet' = Read("typeCache", key, typeCache, getHit(key))
        /\ typeCache' = IF getHit(key) THEN typeCache
                        ELSE IF ok THEN Put(typeCache, key, Entry(uri))
                        ELSE Remove(typeCache, {key})
        /\ lastSet' = IF ~getHit(key) /\ ok THEN Put(lastSet, key, now) ELSE lastSet
        /\ invalidated' = IF ~getHit(key) /\ ok THEN invalidated \ {key} ELSE invalidated
        /\ UNCHANGED <<walkVars, lspVars, docVersion, clockVars, typeResolutionCache, calls, genVars>>

\* TypeEnricher.invalidateCache, part_004 lines 347-349.
invalidateCache(uri) ==
    /\ typeCache' = Remove(typeCache, KeysOfDocument(typeCache, uri))
    /\ lastSet' = Remove(lastSet, TypeCacheKeys)
    /\ invalidated' = invalidated \cup PositionKeysOf(uri)
    /\ lastGet' = NoGet

\* hoverProvider.ts lines 270-277: the text of a document has changed.
OnDidChangeTextDocument(uri) ==
    /\ docVersion[uri] < MaxEdits
    /\ docVersion' = [docVersion EXCEPT ![uri] = @ + 1]
    /\ invalidateCache(uri)
    /\ UNCHANGED <<walkVars, lspVars, clockVars, typeResolutionCache, calls, genVars>>

\* hoverProvider.ts lines 254-268: a document has been saved.
OnDidSaveTextDocument(uri) ==
    /\ invalidateCache(uri)
    /\ UNCHANGED <<walkVars, lspVars, docVersion, clockVars, typeResolutionCache, calls, genVars>>

\* The documents open in the editor: the origin document.
OpenDocs == {D0}

DocNext ==
    \/ \E d \in OpenDocs, ok \in BOOLEAN : CallGetGoFile(d, ok)
    \/ \E d \in OpenDocs, ok \in BOOLEAN : \E p \in Sites(d) : CallGetTypeDefinition(d, p, ok)
    \/ \E d \in OpenDocs, p \in CachePositions, ok \in BOOLEAN : CallEnrichType(d, p, ok)
    \/ \E d \in OpenDocs : OnDidChangeTextDocument(d)
    \/ \E d \in OpenDocs : OnDidSaveTextDocument(d)
    \/ Tick(TTL_MS)

DocSpec == CacheInit /\ [][DocNext]_vars

LspTables == {"goFileCache", "definitionCache"}

\* C6 (as claimed): a parsed document or a definition location cached at time T is
\* not served by a read at T + TTL or later.
C6_LspTablesExpire ==
    (lastGet.table \in LspTables /\ lastGet.hit) => lastGet.at < lastGet.cachedAt + TTL_MS

\* C8 (as claimed): no read after an edit of a document is served what was cached
\* for that document before the edit.
C8_NothingStaleAfterEdit ==
    (lastGet.table /= "" /\ lastGet.hit) => lastGet.cachedVersion = lastGet.version

(***************************************************************************)
(* The oracle calls of GoplsProvider, raced against their timers, and the  *)
(* callers that cache their answers.                                       *)
(***************************************************************************)
DEFAULT_TIMEOUT == 1000

MaxCalls == 2

\* goplsProvider.ts lines 221-224: the configured timeout, or the default.
getConfiguredTimeout == {1, DEFAULT_TIMEOUT}

NewOracleCall(kind, document, position, key, timeoutMs) ==
    [kind |-> kind, document |-> document, position |-> position, key |-> key,
     start |-> now, timeoutMs |-> timeoutMs, status |-> "pending",
     returned |-> "", completedAt |-> 0, issued |-> 1,
     version |-> docVersion[document]]

\* TypeEnricher.enrichType up to its await (part_004 lines 61-79), through
\* GoplsProvider.getTypeInfo and getHoverInfo (goplsProvider.ts lines 53-70).
StartEnrichType(uri, position, timeoutMs) ==
    LET key == makeKey(uri, position.line, position.character)
    IN  /\ Len(calls) < MaxCalls
        /\ lastGet' = Read("typeCache", key, typeCache, getHit(key))
        /\ typeCache' = IF key \in DOMAIN typeCache /\ ~getHit(key)
                        THEN Remove(typeCache, {key}) ELSE typeCache
        /\ calls' = IF getHit(key) THEN calls
                    ELSE Append(calls, NewOracleCall("hover", uri, position, key, timeoutMs))
        /\ UNCHANGED <<walkVars, lspVars, docVersion, clockVars, typeResolutionCache,
                       lastSet, invalidated, genVars>>

\* LspTypeResolver.getTypeDefinition up to its await (part_003 lines 276-286), through
\* GoplsProvider.getTypeDefinition (goplsProvider.ts lines 85-102).
StartGetTypeDefinition(document, position, timeoutMs) ==
    LET key == makePositionKey(document, position)
    IN  /\ Len(calls) < MaxCalls
        /\ key \notin DOMAIN definitionCache
        /\ calls' = Append(calls, NewOracleCall("typeDefinition", document, position,
                                                key, timeoutMs))
        /\ UNCHANGED <<walkVars, lspVars, docVersion, clockVars, ttlVars, historyVars, genVars>>

Completed(c, status, returned) ==
    [c EXCEPT !.status = status, !.returned = returned, !.completedAt = now]

\* The oracle answers before the timer fires: the race settles with its answer, and
\* the caller caches an answer that holds something (part_004 lines 80-88, part_003
\* lines 286-291). The answer describes the text the query was issued for.
OracleAnswers(i, found) ==
    LET c == calls[i]
        answer == IF found THEN "info" ELSE "none"
    IN  /\ c.status = "pending"
        /\ calls' = [calls EXCEPT ![i] = Completed(c, "answered", answer)]
        /\ typeCache' = IF found /\ c.kind = "hover"
                        THEN Put(typeCache, c.key, [info |-> c.version, timestamp |-> now])
                        ELSE typeCache
        /\ lastSet' = IF found /\ c.kind = "hover" THEN Put(lastSet, c.key, now) ELSE lastSet
        /\ invalidated' = IF found /\ c.kind = "hover"
                          THEN invalidated \ {c.key} ELSE invalidated
        /\ definitionCache' =
               IF found /\ c.kind = "typeDefinition"
               THEN Put(definitionCache, c.key,
                        decls[HoverTypeName(c.document, c.position)].doc)
               ELSE definitionCache
        /\ stamp' = Stamped(DOMAIN goFileCache \cup DOMAIN definitionCache')
        /\ UNCHANGED <<walkVars, goFileCache, docVersion, clockVars, typeResolutionCache,
                       lastGet, genVars>>

\* The timer fires first: the race rejects, the catch returns undefined (goplsProvider.ts
\* lines 76-79 and 108-110) and the caller returns without caching.
TimeoutFires(i) ==
    LET c == calls[i]
    IN  /\ c.status = "pending"
        /\ now >= TimerDue(c)
        /\ calls' = [calls EXCEPT ![i] = Completed(c, "timedOut", "none")]
        /\ UNCHANGED <<walkVars, lspVars, docVersion, clockVars, ttlVars, historyVars, genVars>>

\* The oracle answers a call whose race is already settled: nobody awaits the answer.
LateAnswer(i) ==
    /\ calls[i].status = "timedOut"
    /\ calls' = [calls EXCEPT ![i].status = "discarded"]
    /\ UNCHANGED <<walkVars, lspVars, docVersion, clockVars, ttlVars, historyVars, genVars>>

CallNext ==
    \/ \E d \in OpenDocs, p \in CachePositions, ms \in getConfiguredTimeout :
          StartEnrichType(d, p, ms)
    \/ \E d \in OpenDocs, ms \in getConfiguredTimeout : \E p \in Sites(d) :
          StartGetTypeDefinition(d, p, ms)
    \/ \E i \in 1..Len(calls), found \in BOOLEAN : OracleAnswers(i, found)
    \/ \E i \in 1..Len(calls) : TimeoutFires(i)
    \/ \E i \in 1..Len(calls) : LateAnswer(i)
    \/ \E dt \in {1, DEFAULT_TIMEOUT} : Tick(dt)

CallSpec == CacheInit /\ [][CallNext]_vars

TimedOut == {"timedOut", "discarded"}

CallsMeetDeadline ==
    \A i \in 1..Len(calls) :
        LET c == calls[i]
        IN  /\ c.status = "pending" => now <= c.start + c.timeoutMs
            /\ c.status /= "pending" => c.completedAt <= c.start + c.timeoutMs
            /\ c.status \in TimedOut => c.returned = "none" /\ c.issued = 1

LateAnswerChangesNothing ==
    \A i \in 1..Len(calls) :
        (calls[i].status = "timedOut" /\ calls'[i].status = "discarded")
            => /\ calls'[i].returned = calls[i].returned
               /\ typeCache' = typeCache
               /\ typeResolutionCache' = typeResolutionCache
               /\ definitionCache' = definitionCache
               /\ goFileCache' = goFileCache

MaxTypeDepth == 2

GoNames == {"int", "string", "float64", "error", "io.Reader"}

NoNode == [type |-> "null", text |-> << >>, kids |-> << >>]
Ident(n) == [type |-> "type_identifier", text |-> <<n>>, kids |-> << >>]
PointerTo(t) == [type |-> "pointer_type", text |-> <<"*">> \o t.text, kids |-> <<t>>]
SliceOf(t) == [type |-> "slice_type", text |-> <<"[", "]">> \o t.text, kids |-> <<t>>]
MapFrom(k, v) ==
    [type |-> "map_type",
     text |-> <<"map", "[">> \o k.text \o <<"]">> \o v.text,
     kids |-> <<k, v>>]

RECURSIVE TypeNodes(_)
TypeNodes(d) ==
    IF d = 0 THEN {Ident(n) : n \in GoNames}
    ELSE LET S == TypeNodes(d - 1)
         IN  S \cup {PointerTo(t) : t \in S} \cup {SliceOf(t) : t \in S}
               \cup {MapFrom(k, v) : k \in S, v \in S}

textOf(node) == node.text

\* interface GoType; an absent keyType or valueType is << >>, a present one <<t>>
GoType(n, p, s, m, v, k, val) ==
    [name |-> n, isPointer |-> p, isSlice |-> s, isMap |-> m, isVariadic |-> v,
     keyType |-> k, valueType |-> val]

\* trimmed.match(/map\[(.+)\](.+)/): the first group is greedy, so the pattern
\* splits at the last "]" that still leaves one lexeme for the second group;
\* 0 when the pattern does not match.
mapMatch(trimmed) ==
    LET Splits == {j \in 4..(Len(trimmed) - 1) : trimmed[j] = "]"}
    IN  IF Splits = {} THEN 0 ELSE CHOOSE j \in Splits : \A i \in Splits : i <= j

RECURSIVE parseType(_)
parseType(trimmed) ==
    LET isVariadic == StartsWith(trimmed, <<"...">>)
        isPointer == StartsWith(trimmed, <<"*">>)
        isSlice == StartsWith(trimmed, <<"[", "]">>)
        isMap == StartsWith(trimmed, <<"map", "[">>)
        baseType == IF isVariadic THEN SubSeq(trimmed, 2, Len(trimmed))
                    ELSE IF isPointer THEN SubSeq(trimmed, 2, Len(trimmed))
                    ELSE IF isSlice THEN SubSeq(trimmed, 3, Len(trimmed))
                    ELSE trimmed
        j == mapMatch(trimmed)
    IN  IF ~isVariadic /\ ~isPointer /\ ~isSlice /\ isMap /\ j # 0
        THEN GoType(<<"Map">>, FALSE, FALSE, TRUE, FALSE,
                    <<parseType(SubSeq(trimmed, 3, j - 1))>>,
                    <<parseType(SubSeq(trimmed, j + 1, Len(trimmed)))>>)
        ELSE GoType(baseType, isPointer, isSlice \/ isVariadic, FALSE, isVariadic,
                    << >>, << >>)

childForFieldName(node, i) == IF i <= Len(node.kids) THEN node.kids[i] ELSE NoNode

RECURSIVE parseTypeNode(_)
parseTypeNode(node) ==
    IF node = NoNode
    THEN GoType(<<"interface{}">>, FALSE, FALSE, FALSE, FALSE, << >>, << >>)
    ELSE CASE node.type = "pointer_type" ->
                [parseTypeNode(childForFieldName(node, 1)) EXCEPT !.isPointer = TRUE]
           [] node.type = "slice_type" ->
                [parseTypeNode(childForFieldName(node, 1)) EXCEPT !.isSlice = TRUE]
           [] node.type = "map_type" ->
                GoType(<<"Map">>, FALSE, FALSE, TRUE, FALSE,
                       <<parseTypeNode(childForFieldName(node, 1))>>,
                       <<parseTypeNode(childForFieldName(node, 2))>>)
           [] node.type = "variadic_parameter" ->
                [parseTypeNode(childForFieldName(node, 1))
                    EXCEPT !.isVariadic = TRUE, !.isSlice = TRUE]
           [] OTHER ->
                GoType(textOf(node), FALSE, FALSE, FALSE, FALSE, << >>, << >>)

TYPE_MAP ==
    [n \in {"int", "int8", "int16", "int32", "int64", "uint", "uint8", "uint16",
            "uint32", "uint64", "float32", "float64", "bool", "string", "rune",
            "byte", "error", "interface{}", "any"} |->
        CASE n \in {"int", "int32", "uint", "uint16"} -> "int"
          [] n \in {"int8", "uint8", "byte"} -> "byte"
          [] n = "int16" -> "short"
          [] n \in {"int64", "uint32", "uint64"} -> "long"
          [] n = "float32" -> "float"
          [] n = "float64" -> "double"
          [] n = "bool" -> "boolean"
          [] n = "string" -> "String"
          [] n = "rune" -> "char"
          [] n = "error" -> "Exception"
          [] OTHER -> "Object"]

BOXED_TYPE_MAP ==
    [n \in {"int", "byte", "short", "long", "float", "double", "boolean", "char"} |->
        CASE n = "int" -> "Integer"
          [] n = "byte" -> "Byte"
          [] n = "short" -> "Short"
          [] n = "long" -> "Long"
          [] n = "float" -> "Float"
          [] n = "double" -> "Double"
          [] n = "boolean" -> "Boolean"
          [] OTHER -> "Character"]

\* TABLE[name] || name, for a name that is a text
Lookup(table, name) ==
    IF Len(name) = 1 /\ name[1] \in DOMAIN table THEN <<table[name[1]]>> ELSE name

Mapped(table, name) == Len(name) = 1 /\ name[1] \in DOMAIN table

RECURSIVE convertGoTypeToJava(_, _)
convertGoTypeToJava(goType, needsBoxing) ==
    IF goType.isMap /\ goType.keyType # << >> /\ goType.valueType # << >>
    THEN <<"Map", "<">> \o convertGoTypeToJava(goType.keyType[1], TRUE) \o <<",">>
            \o convertGoTypeToJava(goType.valueType[1], TRUE) \o <<">">>
    ELSE LET baseType == Lookup(TYPE_MAP, goType.name)
         IN  IF goType.isSlice
             THEN <<"List", "<">> \o Lookup(BOXED_TYPE_MAP, baseType) \o <<">">>
             ELSE IF goType.isPointer
             THEN IF baseType = <<"String">> \/ baseType = <<"Object">>
                  THEN baseType
                  ELSE Lookup(BOXED_TYPE_MAP, baseType)
             ELSE IF needsBoxing /\ Mapped(BOXED_TYPE_MAP, baseType)
             THEN Lookup(BOXED_TYPE_MAP, baseType)
             ELSE baseType

STDLIB_TYPE_MAPPINGS ==
    [n \in {"io.Reader", "io.Writer", "time.Time", "time.Duration"} |->
        CASE n = "io.Reader" -> "InputStream"
          [] n = "io.Writer" -> "OutputStream"
          [] n = "time.Time" -> "Instant"
          [] OTHER -> "Duration"]

\* lookupStdlibType(typeName, packagePath) with no packagePath, which no parser
\* sets: only a qualified name is looked up
lookupStdlibType(typeName) ==
    IF Mapped(STDLIB_TYPE_MAPPINGS, typeName) THEN <<STDLIB_TYPE_MAPPINGS[typeName[1]]>>
    ELSE << >>

convertTypeToJavaWithContext(goType, ctx) ==
    IF ~ctx THEN convertGoTypeToJava(goType, goType.isSlice \/ goType.isMap)
    ELSE IF lookupStdlibType(goType.name) # << >> THEN lookupStdlibType(goType.name)
    ELSE convertGoTypeToJava(goType, goType.isSlice \/ goType.isMap)

\* A parameter of the source: its node type, its names, and its 'type' field.
\* A variadic parameter is one of the two node types parseParameters accepts
\* for it; its text has "..." before the type.
VariadicNodeTypes == {"variadic_parameter", "variadic_parameter_declaration"}

ParameterNode(nodeType, names, typeNode) ==
    [type |-> nodeType, names |-> names, kids |-> <<typeNode>>,
     text |-> IF nodeType = "parameter_declaration" THEN typeNode.text
              ELSE <<"...">> \o typeNode.text]

\* treeSitterGoParser.parseParameters, the GoType of one parameter node
ParameterType(paramNode) ==
    LET typeNode == IF childForFieldName(paramNode, 1) # NoNode
                    THEN childForFieldName(paramNode, 1) ELSE paramNode
    IN  [parseTypeNode(typeNode) EXCEPT
            !.isVariadic = IF paramNode.type = "variadic_parameter_declaration"
                           THEN TRUE ELSE parseTypeNode(typeNode).isVariadic]

\* one GoParameter per name of every parameter node, in source order
RECURSIVE Flatten(_)
Flatten(ss) == IF ss = << >> THEN << >> ELSE Head(ss) \o Flatten(Tail(ss))

treeSitterParseParameters(paramNodes) ==
    Flatten([i \in 1..Len(paramNodes) |->
        IF paramNodes[i].names = << >>
        THEN <<[name |-> "", type |-> ParameterType(paramNodes[i])]>>
        ELSE [k \in 1..Len(paramNodes[i].names) |->
                [name |-> paramNodes[i].names[k], type |-> ParameterType(paramNodes[i])]]])

\* GoFunctionParser.parseParameters: a segment of one token is a pending name,
\* the last token of a longer segment is the type of the names before it
RECURSIVE parseParametersFrom(_, _)
parseParametersFrom(segments, pendingNames) ==
    IF segments = << >> THEN << >>
    ELSE LET segment == Head(segments)
         IN  IF segment.names = << >>
             THEN parseParametersFrom(Tail(segments), Append(pendingNames, "_"))
             ELSE LET names == pendingNames \o segment.names
                  IN  [k \in 1..Len(names) |->
                          [name |-> names[k], type |-> parseType(segment.text)]]
                      \o parseParametersFrom(Tail(segments), << >>)

parseParameters(segments) == parseParametersFrom(segments, << >>)

(***************************************************************************)
(* The type pipeline alone: a parameter's type is parsed by the configured *)
(* strategy and mapped to its Java type.                                   *)
(***************************************************************************)
ParameterNodesOf(t) ==
    {ParameterNode(k, <<"x">>, t) : k \in {"parameter_declaration"} \cup VariadicNodeTypes}

ParseTypeText ==
    /\ parser = "regex"
    /\ parsed = << >>
    /\ parsed' = <<parseParameters(<<source>>)[1].type>>
    /\ UNCHANGED <<walkVars, lspVars, docVersion, clockVars, ttlVars, historyVars, calls,
                   source, parser, genOptions, generated>>

ParseTypeTree ==
    /\ parser = "tree-sitter"
    /\ parsed = << >>
    /\ parsed' = <<treeSitterParseParameters(<<source>>)[1].type>>
    /\ UNCHANGED <<walkVars, lspVars, docVersion, clockVars, ttlVars, historyVars, calls,
                   source, parser, genOptions, generated>>

ConvertType ==
    /\ parsed # << >>
    /\ generated = << >>
    /\ ~genOptions.ctx
    /\ generated' = <<convertGoTypeToJava(parsed[1], genOptions.needsBoxing)>>
    /\ UNCHANGED <<walkVars, lspVars, docVersion, clockVars, ttlVars, historyVars, calls,
                   source, parser, genOptions, parsed>>

ConvertTypeWithContext ==
    /\ parsed # << >>
    /\ generated = << >>
    /\ genOptions.ctx
    /\ generated' = <<convertTypeToJavaWithContext(parsed[1], TRUE)>>
    /\ UNCHANGED <<walkVars, lspVars, docVersion, clockVars, ttlVars, historyVars, calls,
                   source, parser, genOptions, parsed>>

TypeInit ==
    /\ Constructed
    /\ decls = World(<<Named("C")>>, << >>, "struct", D2, <<Named("A")>>)
    /\ \E t \in TypeNodes(MaxTypeDepth) : source \in ParameterNodesOf(t)
    /\ parser \in {"regex", "tree-sitter"}
    /\ genOptions \in [needsBoxing : BOOLEAN, ctx : BOOLEAN]
    /\ parsed = << >>
    /\ generated = << >>

TypeNext == ParseTypeText \/ ParseTypeTree \/ ConvertType \/ ConvertTypeWithContext

TypeSpec == TypeInit /\ [][TypeNext]_vars

Primitives == {"int", "long", "short", "byte", "float", "double", "boolean", "char"}

\* a primitive lexeme stands between a "<" and a ">" of the text
PrimitiveInsideAngles(java) ==
    \E i, j, k \in 1..Len(java) :
        /\ i < j /\ j < k
        /\ java[i] = "<" /\ java[k] = ">"
        /\ java[j] \in Primitives

\* C15: the Java type of a GoType with the slice or the map flag set has no
\* unboxed primitive (int, long, short, byte, float, double, boolean, char)
\* inside its angle brackets, whatever needsBoxing is.
C15_ContainersAreBoxed ==
    (generated # << >> /\ (parsed[1].isSlice \/ parsed[1].isMap))
        => ~PrimitiveInsideAngles(generated[1])

\* the GoType and every key and value GoType below it
RECURSIVE TypeRefsOf(_)
TypeRefsOf(t) ==
    {t} \cup (IF t.keyType = << >> THEN {} ELSE TypeRefsOf(t.keyType[1]))
        \cup (IF t.valueType = << >> THEN {} ELSE TypeRefsOf(t.valueType[1]))

\* C20: in every GoType a parser produces, the map flag implies a key and a
\* value GoType, and the variadic flag implies the slice flag.
C20_TypeRefInvariant ==
    parsed # << >> =>
        \A t \in TypeRefsOf(parsed[1]) :
            /\ t.isMap => (t.keyType # << >> /\ t.valueType # << >>)
            /\ t.isVariadic => t.isSlice

(***************************************************************************)
(* Functions: GoFunctionParser.parseFunction and treeSitter buildFunction   *)
(* produce a GoFunction; JavaCodeGenerator renders it.  A function of the   *)
(* source is [name, receiver, params, results]: receiver is << >> or one    *)
(* parameter node, params are parameter nodes, results are type nodes.      *)
(* Generated Java is kept as its structure: a method is its signature and   *)
(* the statements of its body, a class its fields and accessors.            *)
(***************************************************************************)
Identifiers == {"add", "sum", "a", "b", "nums", "s", "main", "S", "I", "T", "Name", "Reader"}

\* goName.charAt(0).toLowerCase() + goName.slice(1)
toJavaMethodName(goName) ==
    CASE goName = "S" -> "s"
      [] goName = "I" -> "i"
      [] goName = "T" -> "t"
      [] goName = "Name" -> "name"
      [] goName = "Reader" -> "reader"
      [] OTHER -> goName

\* goName.charAt(0).toUpperCase() + goName.slice(1)
toJavaClassName(goName) ==
    CASE goName = "add" -> "Add"
      [] goName = "sum" -> "Sum"
      [] goName = "a" -> "A"
      [] goName = "b" -> "B"
      [] goName = "s" -> "S"
      [] goName = "nums" -> "Nums"
      [] goName = "main" -> "Main"
      [] OTHER -> goName

IsError(t) == t.name = <<"error">>

\* GoFunctionParser.parseReturnTypes: the last token of every item is its type
parseReturnTypes(results) == [i \in 1..Len(results) |-> parseType(results[i].text)]

\* treeSitterGoParser.parseResultTypes
parseResultTypes(results) ==
    IF Len(results) = 1 THEN <<parseTypeNode(results[1])>>
    ELSE [i \in 1..Len(results) |->
            ParameterType(ParameterNode("parameter_declaration", << >>, results[i]))]

GoFunction(name, parameters, returnTypes, receiver) ==
    [name |-> name, parameters |-> parameters, returnTypes |-> returnTypes,
     isMethod |-> receiver # << >>, receiver |-> receiver,
     hasErrorReturn |-> \E i \in 1..Len(returnTypes) : IsError(returnTypes[i])]

parseFunction(fn) ==
    GoFunction(fn.name, parseParameters(fn.params), parseReturnTypes(fn.results),
               parseParameters(fn.receiver))

buildFunction(fn) ==
    GoFunction(fn.name, treeSitterParseParameters(fn.params), parseResultTypes(fn.results),
               treeSitterParseParameters(fn.receiver))

nonErrorTypes(returnTypes) == SelectSeq(returnTypes, LAMBDA t : ~IsError(t))

generateResultClassName(goFunc, options) ==
    IF options.className # ""
    THEN <<options.className, toJavaClassName(goFunc.name), "Result">>
    ELSE <<toJavaClassName(goFunc.name), "Result">>

getReturnType(goFunc, options) ==
    IF Len(goFunc.returnTypes) = 0 THEN <<"void">>
    ELSE IF Len(nonErrorTypes(goFunc.returnTypes)) = 0 THEN <<"void">>
    ELSE IF Len(nonErrorTypes(goFunc.returnTypes)) = 1
    THEN convertGoTypeToJava(nonErrorTypes(goFunc.returnTypes)[1], FALSE)
    ELSE generateResultClassName(goFunc, options)

\* one rendered parameter: [type, varargs, name]
generateParameterList(goFunc) ==
    [i \in 1..Len(goFunc.parameters) |->
        LET param == goFunc.parameters[i]
            isLast == i = Len(goFunc.parameters)
        IN  IF param.type.isVariadic /\ isLast
            THEN [type |-> convertGoTypeToJava(
                              [param.type EXCEPT !.isSlice = FALSE, !.isVariadic = FALSE],
                              FALSE),
                  varargs |-> TRUE, name |-> toJavaMethodName(param.name)]
            ELSE [type |-> convertGoTypeToJava(param.type, FALSE),
                  varargs |-> FALSE, name |-> toJavaMethodName(param.name)]]

generateMethodSignature(goFunc, options) ==
    [static |-> options.isStatic /\ ~goFunc.isMethod,
     returnType |-> getReturnType(goFunc, options),
     name |-> toJavaMethodName(goFunc.name),
     params |-> generateParameterList(goFunc),
     throws |-> goFunc.hasErrorReturn /\ options.handleErrorsAsExceptions]

getDefaultValue(javaType) ==
    IF javaType \in {<<"int">>, <<"long">>, <<"short">>, <<"byte">>} THEN <<"0">>
    ELSE IF javaType \in {<<"float">>, <<"double">>} THEN <<"0.0">>
    ELSE IF javaType = <<"boolean">> THEN <<"false">>
    ELSE IF javaType = <<"char">> THEN <<"'\\0'">>
    ELSE IF javaType = <<"String">> THEN <<"\"\"">>
    ELSE IF StartsWith(javaType, <<"List", "<">>) THEN <<"new", "ArrayList", "<", ">", "(", ")">>
    ELSE IF StartsWith(javaType, <<"Map", "<">>) THEN <<"new", "HashMap", "<", ">", "(", ")">>
    ELSE <<"null">>

Throw == [kind |-> "throw", expr |-> <<"new", "Exception", "(", ")">>]
Return(e) == [kind |-> "return", expr |-> e]

\* the statements of the stub body
generateMethodBody(goFunc, options) ==
    IF Len(goFunc.returnTypes) = 0
    THEN IF goFunc.hasErrorReturn /\ options.handleErrorsAsExceptions
         THEN <<Throw>> ELSE << >>
    ELSE IF Len(goFunc.returnTypes) = 1
    THEN IF IsError(goFunc.returnTypes[1])
         THEN IF options.handleErrorsAsExceptions THEN <<Throw>> ELSE << >>
         ELSE <<Return(getDefaultValue(convertGoTypeToJava(goFunc.returnTypes[1], FALSE)))>>
    ELSE <<Return(<<"new">> \o generateResultClassName(goFunc, options) \o <<"(", ")">>)>>

generateJavaMethod(goFunc, options) ==
    [kind |-> "method", of |-> goFunc.name,
     signature |-> generateMethodSignature(goFunc, options),
     body |-> generateMethodBody(goFunc, options)]

\* '' (here << >>) or the one Result class: a field, a getter and a setter for
\* every return type that is not error, numbered by its position
generateResultClass(goFunc, options) ==
    IF Len(goFunc.returnTypes) <= 1 THEN << >>
    ELSE LET Kept == SelectSeq([i \in 1..Len(goFunc.returnTypes) |-> i],
                               LAMBDA i : ~IsError(goFunc.returnTypes[i]))
             javaType(i) == convertGoTypeToJava(goFunc.returnTypes[i], FALSE)
         IN  <<[kind |-> "resultClass", of |-> goFunc.name,
                name |-> generateResultClassName(goFunc, options),
                fields |-> [k \in 1..Len(Kept) |->
                              [type |-> javaType(Kept[k]),
                               name |-> <<"value">> \o ToStr(Kept[k])]],
                getters |-> [k \in 1..Len(Kept) |->
                              [type |-> javaType(Kept[k]),
                               name |-> <<"getValue">> \o ToStr(Kept[k])]],
                setters |-> [k \in 1..Len(Kept) |->
                              [type |-> javaType(Kept[k]),
                               name |-> <<"setValue">> \o ToStr(Kept[k])]]]>>

generateFullJavaClass(goFunc, className) ==
    LET methodOptions == [className |-> className, isStatic |-> TRUE,
                          handleErrorsAsExceptions |-> TRUE]
    IN  [kind |-> "class", name |-> className,
         members |-> <<generateJavaMethod(goFunc, methodOptions)>>
                        \o generateResultClass(goFunc, methodOptions)]

(***************************************************************************)
(* Units: a unit of the source is a sequence of top-level declarations.    *)
(* A field of a struct has names and a 'type' child; an embedded field has  *)
(* no name, and the "*" of an embedded pointer is not part of its type      *)
(* node.                                                                    *)
(***************************************************************************)
FieldNode(names, star, typeNode) ==
    [names |-> names, star |-> star, kids |-> <<typeNode>>,
     text |-> (IF star THEN <<"*">> ELSE << >>) \o typeNode.text]

FunctionDecl(name, receiver, params, results) ==
    [kind |-> "func", name |-> name, receiver |-> receiver, params |-> params,
     results |-> results]
StructDecl(name, fields) == [kind |-> "struct", name |-> name, fields |-> fields]
InterfaceDecl(name, methods) == [kind |-> "interface", name |-> name, methods |-> methods]
AliasDecl(name, typeNode) == [kind |-> "alias", name |-> name, kids |-> <<typeNode>>]
PackageClause(name) == [kind |-> "package", name |-> name]

\* /^[A-Z]/ on the identifiers of the model
UpperInitial == {"S", "I", "T", "Name", "Reader"}

\* GoFileParser.parseField: << >> for null
parseField(fieldNode) ==
    IF fieldNode.names # << >>
    THEN <<[name |-> fieldNode.names[1], type |-> parseType(fieldNode.kids[1].text),
            isEmbedded |-> FALSE]>>
    ELSE IF fieldNode.kids[1].type = "type_identifier"
            /\ fieldNode.kids[1].text[1] \in UpperInitial
    THEN <<[name |-> fieldNode.kids[1].text[1], type |-> parseType(fieldNode.text),
            isEmbedded |-> TRUE]>>
    ELSE << >>

\* treeSitterGoParser.parseFieldDeclaration: << >> for null
parseFieldDeclaration(fieldNode) ==
    IF childForFieldName(fieldNode, 1) = NoNode \/ fieldNode.names = << >> THEN << >>
    ELSE <<[name |-> fieldNode.names[1],
            type |-> parseTypeNode(childForFieldName(fieldNode, 1)),
            isEmbedded |-> FALSE]>>

GoStruct(name, fields) ==
    [name |-> name, fields |-> fields, methods |-> << >>,
     embeddedTypes |-> [i \in 1..Len(SelectSeq(fields, LAMBDA f : f.isEmbedded)) |->
                          SelectSeq(fields, LAMBDA f : f.isEmbedded)[i].type]]

parseStruct(decl) ==
    GoStruct(decl.name, Flatten([i \in 1..Len(decl.fields) |-> parseField(decl.fields[i])]))

treeSitterParseStruct(decl) ==
    GoStruct(decl.name,
             Flatten([i \in 1..Len(decl.fields) |-> parseFieldDeclaration(decl.fields[i])]))

parseMethodSignature(m) ==
    [name |-> m.name, parameters |-> parseParameters(m.params),
     returnTypes |-> parseReturnTypes(m.results)]

parseInterface(decl) ==
    [name |-> decl.name,
     methods |-> [i \in 1..Len(decl.methods) |-> parseMethodSignature(decl.methods[i])]]

treeSitterParseInterface(decl) ==
    [name |-> decl.name,
     methods |-> [i \in 1..Len(decl.methods) |->
                    [name |-> decl.methods[i].name,
                     parameters |-> treeSitterParseParameters(decl.methods[i].params),
                     returnTypes |-> parseResultTypes(decl.methods[i].results)]]]

EmptyGoFile ==
    [packageName |-> "", structs |-> << >>, interfaces |-> << >>, functions |-> << >>]

\* receiver.type.name.replace('*', '')
WithoutStar(name) ==
    IF \E i \in 1..Len(name) : name[i] = "*"
    THEN LET i == CHOOSE i \in 1..Len(name) :
                    name[i] = "*" /\ \A j \in 1..(i - 1) : name[j] # "*"
         IN  SubSeq(name, 1, i - 1) \o SubSeq(name, i + 1, Len(name))
    ELSE name

\* receiver.type.name.replace(/^\*/, '')
WithoutLeadingStar(name) ==
    IF StartsWith(name, <<"*">>) THEN SubSeq(name, 2, Len(name)) ELSE name

IndexOfStruct(structs, typeName) ==
    IF \E i \in 1..Len(structs) : <<structs[i].name>> = typeName
    THEN CHOOSE i \in 1..Len(structs) :
            <<structs[i].name>> = typeName
            /\ \A j \in 1..(i - 1) : <<structs[j].name>> # typeName
    ELSE 0

Attach(goFile, i, func) ==
    [goFile EXCEPT !.structs[i].methods = Append(@, func)]

\* GoFileParser.parseFile: the declarations in source order; a method goes to
\* the struct of its receiver when that struct has been parsed already
RECURSIVE parseFileFrom(_, _)
parseFileFrom(unit, goFile) ==
    IF unit = << >> THEN goFile
    ELSE LET decl == Head(unit)
             func == parseFunction(decl)
             at == IndexOfStruct(goFile.structs, WithoutStar(func.receiver[1].type.name))
         IN  parseFileFrom(Tail(unit),
                CASE decl.kind = "package" -> [goFile EXCEPT !.packageName = decl.name]
                  [] decl.kind = "struct" ->
                       [goFile EXCEPT !.structs = Append(@, parseStruct(decl))]
                  [] decl.kind = "interface" ->
                       [goFile EXCEPT !.interfaces = Append(@, parseInterface(decl))]
                  [] decl.kind = "func" ->
                       IF func.isMethod /\ at # 0 THEN Attach(goFile, at, func)
                       ELSE [goFile EXCEPT !.functions = Append(@, func)]
                  [] OTHER -> goFile)

parseFile(unit) == parseFileFrom(unit, EmptyGoFile)

\* treeSitterGoParser.parseFile: every declaration first, then the methods are
\* moved to the struct of their receiver
RECURSIVE AttachAll(_, _)
AttachAll(goFile, funcs) ==
    IF funcs = << >> THEN goFile
    ELSE LET fn == Head(funcs)
             at == IndexOfStruct(goFile.structs, WithoutLeadingStar(fn.receiver[1].type.name))
         IN  AttachAll(IF fn.isMethod /\ at # 0 THEN Attach(goFile, at, fn)
                       ELSE [goFile EXCEPT !.functions = Append(@, fn)],
                       Tail(funcs))

OfKind(unit, kind) == SelectSeq(unit, LAMBDA d : d.kind = kind)

inferPackage(unit) ==
    IF OfKind(unit, "package") = << >> THEN "" ELSE OfKind(unit, "package")[1].name

treeSitterParseFile(unit) ==
    AttachAll([packageName |-> inferPackage(unit),
               structs |-> [i \in 1..Len(OfKind(unit, "struct")) |->
                              treeSitterParseStruct(OfKind(unit, "struct")[i])],
               interfaces |-> [i \in 1..Len(OfKind(unit, "interface")) |->
                              treeSitterParseInterface(OfKind(unit, "interface")[i])],
               functions |-> << >>],
              [i \in 1..Len(OfKind(unit, "func")) |-> buildFunction(OfKind(unit, "func")[i])])

JavaName(name) ==
    [i \in 1..Len(name) |-> IF i = 1 THEN toJavaMethodName(name[1]) ELSE name[i]]

getReturnTypeWithContext(returnTypes) ==
    IF Len(returnTypes) = 0 THEN <<"void">>
    ELSE IF Len(nonErrorTypes(returnTypes)) = 0 THEN <<"void">>
    ELSE IF Len(nonErrorTypes(returnTypes)) = 1
    THEN convertTypeToJavaWithContext(nonErrorTypes(returnTypes)[1], TRUE)
    ELSE <<"Object">>

generateParameterListWithContext(parameters) ==
    [i \in 1..Len(parameters) |->
        [type |-> convertTypeToJavaWithContext(parameters[i].type, TRUE),
         varargs |-> FALSE, name |-> toJavaMethodName(parameters[i].name)]]

generateJavaInterface(iface, options) ==
    [kind |-> "interface", of |-> iface.name, name |-> iface.name, extends |-> << >>,
     methods |-> [i \in 1..Len(iface.methods) |->
        [kind |-> "abstract", of |-> iface.methods[i].name,
         signature |->
            [static |-> FALSE,
             returnType |-> getReturnTypeWithContext(iface.methods[i].returnTypes),
             name |-> toJavaMethodName(iface.methods[i].name),
             params |-> generateParameterListWithContext(iface.methods[i].parameters),
             throws |-> \E k \in 1..Len(iface.methods[i].returnTypes) :
                           IsError(iface.methods[i].returnTypes[k])],
         body |-> << >>]]]

generateJavaClass(struct, options) ==
    LET regularFields == SelectSeq(struct.fields, LAMBDA f : ~f.isEmbedded)
    IN  [kind |-> "innerClass", of |-> struct.name, name |-> struct.name, extends |-> << >>,
         fields |->
            [i \in 1..Len(struct.embeddedTypes) |->
                [private |-> TRUE,
                 type |-> convertTypeToJavaWithContext(struct.embeddedTypes[i], TRUE),
                 name |-> JavaName(WithoutStar(struct.embeddedTypes[i].name))]]
            \o [i \in 1..Len(regularFields) |->
                [private |-> TRUE,
                 type |-> convertTypeToJavaWithContext(regularFields[i].type, TRUE),
                 name |-> <<toJavaMethodName(regularFields[i].name)>>]],
         getters |->
            IF options.includeGettersSetters
            THEN [i \in 1..Len(struct.fields) |->
                    [type |-> convertTypeToJavaWithContext(struct.fields[i].type, TRUE),
                     name |-> <<"get", toJavaClassName(struct.fields[i].name)>>,
                     field |-> <<toJavaMethodName(struct.fields[i].name)>>]]
            ELSE << >>,
         setters |->
            IF options.includeGettersSetters
            THEN [i \in 1..Len(struct.fields) |->
                    [type |-> convertTypeToJavaWithContext(struct.fields[i].type, TRUE),
                     name |-> <<"set", toJavaClassName(struct.fields[i].name)>>,
                     field |-> <<toJavaMethodName(struct.fields[i].name)>>]]
            ELSE << >>,
         methods |-> [i \in 1..Len(struct.methods) |->
                        generateJavaMethod(struct.methods[i],
                                           [options EXCEPT !.isStatic = FALSE])]]

\* the class of the file: its inner classes, its inner interfaces, its methods
generateJavaFile(goFile, options) ==
    [kind |-> "class",
     name |-> IF options.className # "" THEN options.className
              ELSE IF toJavaClassName(goFile.packageName) # ""
              THEN toJavaClassName(goFile.packageName)
              ELSE "GoConverter",
     members |->
        [i \in 1..Len(goFile.structs) |-> generateJavaClass(goFile.structs[i], options)]
        \o [i \in 1..Len(goFile.interfaces) |->
              generateJavaInterface(goFile.interfaces[i], options)]
        \o [i \in 1..Len(goFile.functions) |->
              generateJavaMethod(goFile.functions[i], [options EXCEPT !.isStatic = TRUE])]]

\* JavaPreviewProvider.generateErrorContent
generateErrorContent == [kind |-> "error", name |-> "ErrorPreview", members |-> << >>]

(***************************************************************************)
(* The conversion of one callable: the convert command and the hover parse *)
(* the function under the cursor and render it with generateFullJavaClass;  *)
(* the preview parses the whole unit and renders it with generateJavaFile.  *)
(***************************************************************************)
MaxResults == 3

ResultNodes == {Ident(n) : n \in {"int", "float64", "error", "string"}}

ResultLists == UNION {[1..n -> ResultNodes] : n \in 0..MaxResults}

Param(name, t) == ParameterNode("parameter_declaration", <<name>>, t)

ParamLists ==
    {<< >>, <<Param("a", Ident("int")), Param("b", Ident("int"))>>}
    \cup {<<ParameterNode(k, <<"nums">>, Ident("int"))>> : k \in VariadicNodeTypes}
    \cup {<<Param("a", SliceOf(Ident("int"))), ParameterNode(k, <<"nums">>, Ident("string"))>> :
             k \in VariadicNodeTypes}

Receiver == <<Param("s", PointerTo(Ident("S")))>>

\* the unit that holds the callable as a free function, as a method of the
\* struct S, or as a method of the interface I
UnitOf(place, name, params, results) ==
    CASE place = "function" ->
           <<PackageClause("main"), FunctionDecl(name, << >>, params, results)>>
      [] place = "method" ->
           <<PackageClause("main"), StructDecl("S", << >>),
             FunctionDecl(name, Receiver, params, results)>>
      [] OTHER ->
           <<PackageClause("main"),
             InterfaceDecl("I", <<FunctionDecl(name, << >>, params, results)>>)>>

Places == {"function", "method", "interface"}

JavaFileGenerationOptions ==
    [className : {"", "Preview"}, isStatic : {TRUE}, handleErrorsAsExceptions : BOOLEAN,
     includeGettersSetters : BOOLEAN]

Functions(unit) == OfKind(unit, "func")

\* the function under the cursor is parsed alone
ParseFunction ==
    /\ parsed = << >> /\ generated = << >>
    /\ \E i \in 1..Len(Functions(source)) :
          parsed' = <<[kind |-> "function",
                       func |-> IF parser = "regex" THEN parseFunction(Functions(source)[i])
                                ELSE buildFunction(Functions(source)[i])]>>
    /\ UNCHANGED <<walkVars, lspVars, docVersion, clockVars, ttlVars, historyVars, calls,
                   source, parser, genOptions, generated>>

GenerateFullJavaClass ==
    /\ parsed # << >> /\ generated = << >>
    /\ parsed[1].kind = "function"
    /\ generated' = <<generateFullJavaClass(parsed[1].func, "GoConverter")>>
    /\ UNCHANGED <<walkVars, lspVars, docVersion, clockVars, ttlVars, historyVars, calls,
                   source, parser, genOptions, parsed>>

ParseFileRegex ==
    /\ parsed = << >> /\ generated = << >>
    /\ parser = "regex"
    /\ parsed' = <<[kind |-> "file", file |-> parseFile(source)]>>
    /\ UNCHANGED <<walkVars, lspVars, docVersion, clockVars, ttlVars, historyVars, calls,
                   source, parser, genOptions, generated>>

ParseFileTreeSitter ==
    /\ parsed = << >> /\ generated = << >>
    /\ parser = "tree-sitter"
    /\ parsed' = <<[kind |-> "file", file |-> treeSitterParseFile(source)]>>
    /\ UNCHANGED <<walkVars, lspVars, docVersion, clockVars, ttlVars, historyVars, calls,
                   source, parser, genOptions, generated>>

GenerateJavaFile ==
    /\ parsed # << >> /\ generated = << >>
    /\ parsed[1].kind = "file"
    /\ generated' = <<generateJavaFile(parsed[1].file, genOptions)>>
    /\ UNCHANGED <<walkVars, lspVars, docVersion, clockVars, ttlVars, historyVars, calls,
                   source, parser, genOptions, parsed>>

\* provideTextDocumentContent: reading the document or loading the parser threw
PreviewCatches ==
    /\ parsed = << >> /\ generated = << >>
    /\ generated' = <<generateErrorContent>>
    /\ UNCHANGED <<walkVars, lspVars, docVersion, clockVars, ttlVars, historyVars, calls,
                   source, parser, genOptions, parsed>>

GenInit ==
    /\ Constructed
    /\ decls = World(<<Named("C")>>, << >>, "struct", D2, <<Named("A")>>)
    /\ \E place \in Places, name \in {"add"}, params \in ParamLists, results \in ResultLists :
          source = UnitOf(place, name, params, results)
    /\ parser \in {"regex", "tree-sitter"}
    /\ genOptions \in JavaFileGenerationOptions
    /\ parsed = << >>
    /\ generated = << >>

GenNext ==
    \/ ParseFunction \/ GenerateFullJavaClass
    \/ ParseFileRegex \/ ParseFileTreeSitter \/ GenerateJavaFile
    \/ PreviewCatches

GenSpec == GenInit /\ [][GenNext]_vars

\* the callable of the unit, and its rendering in the generated Java
Callable ==
    IF Functions(source) # << >> THEN Functions(source)[1]
    ELSE OfKind(source, "interface")[1].methods[1]

IsFunctionOrMethod == Functions(source) # << >>

Range(s) == {s[i] : i \in 1..Len(s)}

Rendered == generated # << >> /\ generated[1].kind = "class"

MethodsOf(java) ==
    {m \in Range(java.members) : m.kind = "method"}
    \cup UNION {Range(m.methods) : m \in {c \in Range(java.members) :
                                            c.kind \in {"innerClass", "interface"}}}

RenderedCallable == {m \in MethodsOf(generated[1]) : m.of = Callable.name}

WrappersOf(java, name) ==
    SelectSeq(java.members, LAMBDA m : m.kind = "resultClass" /\ m.of = name)

SourceIsError(node) == node.text = <<"error">>

\* k: the return types of the callable that are not error
NonErrors == SelectSeq(Callable.results, LAMBDA r : ~SourceIsError(r))

HasError == \E i \in 1..Len(Callable.results) : SourceIsError(Callable.results[i])

\* the mode generateFullJavaClass fixes, or the one generateJavaFile is given
ErrorsAsExceptions ==
    IF parsed[1].kind = "function" THEN TRUE ELSE genOptions.handleErrorsAsExceptions

\* C11: a function with k > 1 return types other than error has, in the
\* generated output of the single-function and of the whole-unit generation,
\* exactly one Result wrapper with k fields, k getters and k setters, and its
\* method returns that wrapper.
C11_OneResultWrapper ==
    (Rendered /\ Len(NonErrors) > 1) =>
        LET W == WrappersOf(generated[1], Callable.name)
        IN  /\ Len(W) = 1
            /\ Len(W[1].fields) = Len(NonErrors)
            /\ Len(W[1].getters) = Len(NonErrors)
            /\ Len(W[1].setters) = Len(NonErrors)
            /\ RenderedCallable # {}
            /\ \A m \in RenderedCallable : m.signature.returnType = W[1].name

\* C12: a function with at most one return type other than error (none, one
\* value, only an error, one value and an error) has no Result wrapper in the
\* generated output.
C12_NoWrapperForOneValue ==
    (Rendered /\ Len(NonErrors) <= 1) =>
        WrappersOf(generated[1], Callable.name) = << >>

\* the Java type the TYPE_MAP gives the one return type that is not error
MappedReturn == Lookup(TYPE_MAP, NonErrors[1].text)

\* C13: a function returning one value and an error is rendered as a method
\* that declares the mapped type of the value, returns that type's default
\* value (0 for int, 0.0 for double) and declares throws Exception.
C13_ValueAndErrorStub ==
    (Rendered /\ IsFunctionOrMethod /\ ErrorsAsExceptions
        /\ Len(NonErrors) = 1 /\ Len(Callable.results) = 2) =>
        \A m \in RenderedCallable :
            /\ m.signature.returnType = MappedReturn
            /\ m.signature.throws
            /\ m.body = <<Return(getDefaultValue(MappedReturn))>>

IsVariadicParameter(p) == p.type \in VariadicNodeTypes

\* C14: a variadic parameter of a free function, a struct method or an
\* interface method is rendered as the last parameter, as `T... name` with T
\* the unboxed element type, and not as List<Boxed>.
C14_VariadicIsVarargs ==
    Rendered =>
        \A m \in RenderedCallable : \A i \in 1..Len(Callable.params) :
            IsVariadicParameter(Callable.params[i]) =>
                /\ i = Len(m.signature.params)
                /\ m.signature.params[i].varargs
                /\ m.signature.params[i].type
                      = Lookup(TYPE_MAP, Callable.params[i].kids[1].text)

MaxDecls == 2

\* type T struct { *Reader; Name string }
Scenario3 ==
    StructDecl("T", <<FieldNode(<< >>, TRUE, Ident("Reader")),
                      FieldNode(<<"Name">>, FALSE, Ident("string"))>>)

Declarations ==
    {PackageClause("main"),
     Scenario3,
     StructDecl("S", <<FieldNode(<<"Name">>, FALSE, PointerTo(Ident("int")))>>),
     AliasDecl("I", Ident("int")),
     InterfaceDecl("I", <<FunctionDecl("sum", << >>, << >>, <<Ident("error")>>)>>),
     FunctionDecl("add", << >>, <<Param("a", Ident("int")), Param("b", Ident("int"))>>,
                  <<Ident("int"), Ident("error")>>),
     FunctionDecl("sum", Receiver, << >>, <<Ident("int")>>)}

Units == UNION {[1..n -> Declarations] : n \in 0..MaxDecls}

UnitInit ==
    /\ Constructed
    /\ decls = World(<<Named("C")>>, << >>, "struct", D2, <<Named("A")>>)
    /\ source \in Units
    /\ parser \in {"regex", "tree-sitter"}
    /\ genOptions \in JavaFileGenerationOptions
    /\ parsed = << >>
    /\ generated = << >>

UnitNext == ParseFileRegex \/ ParseFileTreeSitter \/ GenerateJavaFile \/ PreviewCatches

UnitSpec == UnitInit /\ [][UnitNext]_vars

\* the unit was parsed and rendered by generateJavaFile
Previewed == parsed # << >> /\ generated # << >>

\* the renderings of the output: its members and the methods of its classes
RenderingsOf(java) ==
    {[kind |-> m.kind, of |-> m.of] : m \in Range(java.members)}
    \cup {[kind |-> m.kind, of |-> m.of] : m \in MethodsOf(java)}

IsRendered(decl, java) ==
    CASE decl.kind = "struct" -> [kind |-> "innerClass", of |-> decl.name] \in RenderingsOf(java)
      [] decl.kind = "interface" -> [kind |-> "interface", of |-> decl.name] \in RenderingsOf(java)
      [] decl.kind = "func" -> [kind |-> "method", of |-> decl.name] \in RenderingsOf(java)
      [] OTHER -> TRUE

\* the declarations neither parser turns into a part of the GoFile
IsSkipped(decl) == decl.kind = "alias"

\* C17: when a declaration of the unit is skipped, the generated output holds
\* a visible marker for it and the rendering of every other declaration.
C17_SkippedIsMarked ==
    Previewed =>
        \A i \in 1..Len(source) :
            IsSkipped(source[i]) =>
                /\ [kind |-> "marker", of |-> source[i].name] \in RenderingsOf(generated[1])
                /\ \A j \in 1..Len(source) : IsRendered(source[j], generated[1])

NoDeclarations == source = << >>

\* C18: a text without any declaration parses to the empty GoFile, and its
\* generation yields the error stub, not an ordinary class.
C18_EmptyUnitIsErrorStub ==
    NoDeclarations =>
        /\ parsed # << >> => parsed[1].file = EmptyGoFile
        /\ Previewed => generated[1].kind = "error"

ClassesOf(java, name) ==
    {m \in Range(java.members) : m.kind = "innerClass" /\ m.of = name}

\* C19: the struct with an embedded *Reader and a field Name string is
\* rendered, under either parser strategy, as a class with a private field of
\* type Reader, a private field name with its getter and setter, and no
\* extends clause.
C19_EmbeddedIsComposed ==
    (Previewed /\ genOptions.includeGettersSetters
        /\ \E i \in 1..Len(source) : source[i] = Scenario3) =>
        \E c \in ClassesOf(generated[1], "T") :
            /\ c.extends = << >>
            /\ \E f \in Range(c.fields) : f.private /\ f.type = <<"Reader">>
            /\ \E f \in Range(c.fields) :
                  f.private /\ f.type = <<"String">> /\ f.name = <<"name">>
            /\ \E g \in Range(c.getters) : g.field = <<"name">>
            /\ \E g \in Range(c.setters) : g.field = <<"name">>

\* the source of the type is `...[]T`, resp. `*map[K]V`
IsVariadicSliceOfName ==
    /\ source.type \in VariadicNodeTypes
    /\ source.kids[1].type = "slice_type"
    /\ source.kids[1].kids[1].type = "type_identifier"

IsPointerToMap ==
    /\ source.type = "parameter_declaration"
    /\ source.kids[1].type = "pointer_type"
    /\ source.kids[1].kids[1].type = "map_type"

\* C21: parseType recognises stacked prefixes: `...[]T` parses to a variadic
\* slice GoType named T, and `*map[K]V` to a pointer GoType with the map flag
\* and K and V parsed as its key and value GoType.
C21_StackedPrefixes ==
    (parser = "regex" /\ parsed # << >>) =>
        /\ IsVariadicSliceOfName =>
              /\ parsed[1].isVariadic /\ parsed[1].isSlice
              /\ parsed[1].name = source.kids[1].kids[1].text
        /\ IsPointerToMap =>
              /\ parsed[1].isPointer /\ parsed[1].isMap
              /\ parsed[1].keyType = <<parseType(source.kids[1].kids[1].kids[1].text)>>
              /\ parsed[1].valueType = <<parseType(source.kids[1].kids[1].kids[2].text)>>

(***************************************************************************)
(* Methods and their receivers after parseFile.                            *)
(***************************************************************************)
IsMethodDecl(decl) == decl.kind = "func" /\ decl.receiver # << >>

\* the receiver of the method names a struct declared anywhere in the unit
ReceiverDeclared(decl) ==
    /\ IsMethodDecl(decl)
    /\ \E j \in 1..Len(source) :
            /\ source[j].kind = "struct"
            /\ <<source[j].name>> = WithoutLeadingStar(decl.receiver[1].kids[1].text)

ParsedFile == parsed # << >> /\ parsed[1].kind = "file"

AttachedTo(goFile, decl) ==
    \E i \in 1..Len(goFile.structs) :
        /\ <<goFile.structs[i].name>> = WithoutLeadingStar(decl.receiver[1].kids[1].text)
        /\ \E m \in Range(goFile.structs[i].methods) :
                m.name = decl.name /\ m.isMethod

IsFreeFunction(goFile, decl) ==
    \E f \in Range(goFile.functions) :
        f.name = decl.name /\ f.isMethod = IsMethodDecl(decl)

RECURSIVE SumOfLengths(_)
SumOfLengths(seqs) ==
    IF seqs = << >> THEN 0 ELSE Len(Head(seqs)) + SumOfLengths(Tail(seqs))

PlacesOfFunctions(goFile) ==
    Len(goFile.functions)
    + SumOfLengths([i \in 1..Len(goFile.structs) |-> goFile.structs[i].methods])

\* C22: after parseFile, under either strategy, a method whose receiver type
\* (pointer stripped) is a struct declared anywhere in the unit is in that
\* struct's methods and not in the free functions; every other function is in
\* the free functions; each parsed function is in exactly one place.
C22_MethodsAttached ==
    ParsedFile =>
        /\ \A i \in 1..Len(source) :
              source[i].kind = "func" =>
                 IF ReceiverDeclared(source[i])
                 THEN /\ AttachedTo(parsed[1].file, source[i])
                      /\ ~IsFreeFunction(parsed[1].file, source[i])
                 ELSE IsFreeFunction(parsed[1].file, source[i])
        /\ PlacesOfFunctions(parsed[1].file) = Len(OfKind(source, "func"))

(***************************************************************************)
(* The depth of the walk.                                                  *)
(***************************************************************************)
\* C23: no oracle query is issued for a reference at a depth greater than
\* maxDepth; a top-level reference is at depth 0 and the references of a
\* resolved declaration are one deeper than the reference that named it.
C23_NoQueryBeyondMaxDepth ==
    /\ \A i \in 1..Len(queries) : queries[i].depth <= maxDepth
    /\ \A k \in 1..Len(stack) : stack[k].call.depth = k - 1

\* A walk with maxDepth 1 returned: A's field of type B was queried at depth 0,
\* B's field of type C at depth 1, and C's field of type A, at depth 2, was
\* left unexplored.
C23_Witness ==
    /\ walkPc = "done"
    /\ maxDepth = 1
    /\ failures = 0
    /\ decls["A"].fields = <<Named("B")>>
    /\ decls["B"].fields = <<Named("C")>>
    /\ decls["C"].kind = "struct"
    /\ decls["C"].fields = <<Named("A")>>
    /\ Len(queries) = 2
    /\ queries[2].depth = 1
    /\ queries[2].name = <<"C">>

(***************************************************************************)
(* Origin units with several map-typed fields.                             *)
(***************************************************************************)
MapChoices ==
    {Named("B"), MapOf("string", "B"), MapOf("string", "C"), MapOf("B", "C")}

MapInit ==
    /\ \E fa \in {q \in SeqsUpTo(MapChoices, MaxFields) : NoRepeat(q)},
          fb \in {<< >>, <<MapOf("string", "C")>>},
          dc \in {D1, D2} :
          decls = World(fa, fb, "struct", dc, << >>)
    /\ Constructed
    /\ NoConversion

MapSpec == MapInit /\ [][Next]_vars

\* the map-typed references among the calls cs that are within the depth bound
MapReferences(cs) ==
    {cs[i] : i \in {j \in 1..Len(cs) : cs[j].type.isMap /\ cs[j].depth <= maxDepth}}

RecursedInto(c) ==
    /\ Len(MapCalls(c)) = 2
    /\ \A k \in 1..Len(MapCalls(c)) : Entered(MapCalls(c)[k])

\* C24: when the walk has returned, every map-typed reference reached within
\* the depth bound (a top-level reference, or a member of a resolved
\* declaration) had resolveType entered for its key and for its value type,
\* also when the document holds several map-typed references.
C24_MapsRecurse ==
    walkPc = "done" =>
        /\ \A c \in MapReferences(typesToResolve) : RecursedInto(c)
        /\ \A j \in 1..Len(queries) :
              LET q == queries[j]
                  t == Matched(q)
              IN  (q.outcome = "ok" /\ t /= "") =>
                      \A c \in MapReferences(
                                  MemberCalls(QueryCall(q),
                                      resolveAtPosition(q.document, q.position, "ok"), t)) :
                          RecursedInto(c)

\* C25: within one walk the oracle is queried at most once for a type: no two
\* queries of the walk name the same type and resolve to the same declaration,
\* whatever the documents of their reference sites.
C25_OneQueryPerType ==
    \A i, j \in 1..Len(queries) :
        (/\ queries[i].name = queries[j].name
         /\ Matched(queries[i]) /= ""
         /\ Matched(queries[i]) = Matched(queries[j])) => i = j

(***************************************************************************)
(* GoFileParser on the lines of a document: where a compound declaration   *)
(* ends.  A line is what the scanner reads of it: what its trimmed text    *)
(* starts with, the declared name, and whether it includes '{' and '}'.    *)
(***************************************************************************)
MaxCompound == 3

Line(starts, name, open, close) ==
    [starts |-> starts, name |-> name, open |-> open, close |-> close]

\* `x int`, `return x`, `Sum() int`
Plain == Line("other", "", FALSE, FALSE)
\* `if x {`
Opening == Line("other", "", TRUE, FALSE)
\* `}`
Closing == Line("other", "", FALSE, TRUE)

\* The balanced forms of a compound declaration named n: its braces on lines
\* of their own, a nested block in a function body, and all on one line.
CompoundForms(n) ==
    {[kind |-> k, name |-> n, lines |-> <<Line(k, n, TRUE, FALSE), Plain, Closing>>] :
          k \in {"struct", "interface", "func"}}
    \cup {[kind |-> k, name |-> n, lines |-> <<Line(k, n, TRUE, TRUE)>>] :
          k \in {"struct", "interface", "func"}}
    \cup {[kind |-> "func", name |-> n,
           lines |-> <<Line("func", n, TRUE, FALSE), Opening, Closing, Closing>>]}

\* content.split('\n') of the document that holds the declarations ds
RECURSIVE LinesOf(_)
LinesOf(ds) == IF ds = << >> THEN << >> ELSE Head(ds).lines \o LinesOf(Tail(ds))

\* the index of the first line from i on that includes '{', Len + 1 if none
RECURSIVE FirstOpenFrom(_, _)
FirstOpenFrom(lines, i) ==
    IF i > Len(lines) \/ lines[i].open THEN i ELSE FirstOpenFrom(lines, i + 1)

\* The loop of parseStruct and of parseInterface: the lines of the body up to
\* the line that brings braceCount to 0; body holds the lines handed to
\* parseField, resp. collected into methodBuffer.
RECURSIVE ScanBody(_, _, _, _)
ScanBody(lines, i, braceCount, body) ==
    IF i > Len(lines) \/ braceCount <= 0 THEN [i |-> i, body |-> body]
    ELSE LET opened == IF lines[i].open THEN braceCount + 1 ELSE braceCount
             closed == IF lines[i].close THEN opened - 1 ELSE opened
         IN  IF lines[i].close /\ closed = 0 THEN [i |-> i, body |-> body]
             ELSE ScanBody(lines, i + 1, closed, Append(body, i))

parseStructLines(lines, startLine) ==
    LET scan == ScanBody(lines, FirstOpenFrom(lines, startLine) + 1, 1, << >>)
    IN  [kind |-> "struct", name |-> lines[startLine].name, startLine |-> startLine,
         body |-> scan.body, nextLine |-> scan.i + 1]

parseInterfaceLines(lines, startLine) ==
    LET scan == ScanBody(lines, FirstOpenFrom(lines, startLine) + 1, 1, << >>)
    IN  [kind |-> "interface", name |-> lines[startLine].name, startLine |-> startLine,
         body |-> scan.body, nextLine |-> scan.i + 1]

\* the loop of parseFunction that skips the body
RECURSIVE SkipBody(_, _, _)
SkipBody(lines, i, braceCount) ==
    IF i > Len(lines) \/ braceCount <= 0 THEN i
    ELSE LET opened == IF lines[i].open THEN braceCount + 1 ELSE braceCount
             closed == IF lines[i].close THEN opened - 1 ELSE opened
         IN  SkipBody(lines, i + 1, closed)

parseFunctionLines(lines, startLine) ==
    LET brace == FirstOpenFrom(lines, startLine)
    IN  [kind |-> "func", name |-> lines[startLine].name, startLine |-> startLine,
         body |-> << >>,
         nextLine |-> IF brace > Len(lines) THEN brace ELSE SkipBody(lines, brace + 1, 1)]

\* the while loop of parseFile: the declarations found from line i on
RECURSIVE parseFileLines(_, _)
parseFileLines(lines, i) ==
    IF i > Len(lines) THEN << >>
    ELSE CASE lines[i].starts = "struct" ->
                LET r == parseStructLines(lines, i)
                IN  <<r>> \o parseFileLines(lines, r.nextLine)
           [] lines[i].starts = "interface" ->
                LET r == parseInterfaceLines(lines, i)
                IN  <<r>> \o parseFileLines(lines, r.nextLine)
           [] lines[i].starts = "func" ->
                LET r == parseFunctionLines(lines, i)
                IN  <<r>> \o parseFileLines(lines, r.nextLine)
           [] OTHER -> parseFileLines(lines, i + 1)

ParseFileByLines ==
    /\ parsed = << >> /\ generated = << >>
    /\ parser = "regex"
    /\ parsed' = <<[kind |-> "lines", found |-> parseFileLines(LinesOf(source), 1)]>>
    /\ UNCHANGED <<walkVars, lspVars, docVersion, clockVars, ttlVars, historyVars, calls,
                   source, parser, genOptions, generated>>

\* documents of up to MaxCompound balanced compound declarations
LineInit ==
    /\ Constructed
    /\ decls = World(<<Named("C")>>, << >>, "struct", D2, <<Named("A")>>)
    /\ \E n \in 1..MaxCompound :
          source \in {ds \in [1..n -> UNION {CompoundForms(ToStr(k)[1]) : k \in 1..MaxCompound}] :
                         \A k \in 1..n : ds[k].name = ToStr(k)[1]}
    /\ parser = "regex"
    /\ genOptions = << >>
    /\ parsed = << >>
    /\ generated = << >>

LineNext == ParseFileByLines

LineSpec == LineInit /\ [][LineNext]_vars

\* the line of the document on which the k-th declaration starts
RECURSIVE StartOf(_)
StartOf(k) == IF k = 1 THEN 1 ELSE StartOf(k - 1) + Len(source[k - 1].lines)

\* C26: the line scanner ends every balanced compound declaration at the line
\* of its matching closing brace, also when both braces are on one line, and
\* finds the next top-level declaration as a declaration of its own.
C26_BraceCountEndsDeclaration ==
    (parsed # << >> /\ parsed[1].kind = "lines") =>
        /\ Len(parsed[1].found) = Len(source)
        /\ \A k \in 1..Len(source) :
              /\ parsed[1].found[k].kind = source[k].kind
              /\ parsed[1].found[k].name = source[k].name
              /\ parsed[1].found[k].startLine = StartOf(k)
              /\ k < Len(source) =>
                     parsed[1].found[k].nextLine = StartOf(k) + Len(source[k].lines)

(***************************************************************************)
(* The same origin unit walked in two orders of its fields, by a resolver  *)
(* constructed anew, with every oracle query answered.                     *)
(***************************************************************************)
Reversed(q) == [i \in 1..Len(q) |-> q[Len(q) + 1 - i]]

\* The walk has returned: its output is kept and the resolvers are constructed
\* anew, for the declarations ds.
StartAgain(ds) ==
    /\ walkPc = "done"
    /\ earlier = << >>
    /\ earlier' = <<[structs |-> Names(externalStructs),
                    interfaces |-> Names(externalInterfaces),
                    maxDepth |-> maxDepth]>>
    /\ decls' = ds
    /\ walkPc' = "idle"
    /\ maxDepth' = DefaultMaxDepth
    /\ typesToResolve' = << >>
    /\ topIdx' = 0
    /\ stack' = << >>
    /\ visited' = {}
    /\ externalStructs' = << >>
    /\ externalInterfaces' = << >>
    /\ nodes' = << >>
    /\ queries' = << >>
    /\ failures' = 0
    /\ goFileCache' = << >>
    /\ definitionCache' = << >>
    /\ stamp' = << >>
    /\ UNCHANGED <<other, otherVars>>

\* a new session on the unit whose struct lists its fields in the reverse order
ReorderOrigin == StartAgain([decls EXCEPT !["A"].fields = Reversed(@)])

OrderInit ==
    /\ \E fa \in FieldSeqs("A"), fb \in FieldSeqs("B"), kc \in Kinds, dc \in {D1, D2} :
          \E fc \in MemberSeqs("C", kc) :
              /\ Len(fa) = MaxFields
              /\ decls = World(fa, fb, kc, dc, fc)
    /\ Constructed
    /\ NoConversion

OrderNext ==
    \/ \E md \in MaxDepths : ResolveFileDependencies(md)
    \/ CallTop
    \/ OracleReturn("ok")
    \/ CallChild
    \/ Finish
    \/ ReturnGraph
    \/ ReorderOrigin

OrderSpec == OrderInit /\ [][OrderNext]_vars

\* C27: with every oracle query answered, the walk over the unit in the
\* reverse order of its fields, with the same maxDepth, returns the same sets
\* externalStructs and externalInterfaces as the walk before it.
C27_OrderIndependent ==
    (walkPc = "done" /\ earlier # << >> /\ maxDepth = earlier[1].maxDepth) =>
        /\ Names(externalStructs) = earlier[1].structs
        /\ Names(externalInterfaces) = earlier[1].interfaces

(***************************************************************************)
(* Two walks on one TypeDependencyResolver.  While the first walk waits    *)
(* for the oracle, resolveFileDependencies is called again for the same    *)
(* document with maxDepth 0: it runs its top-level loop on the visited set *)
(* the two walks share.                                                    *)
(***************************************************************************)
FirstWalkWaits == walkPc = "running" /\ stack # << >> /\ Top.awaiting

\* the next top-level reference after the i-th that resolveType does not
\* return from at once, 0 when there is none
NextToResolve(i, vis) ==
    LET rest == {j \in (i + 1)..Len(typesToResolve) :
                    ~ReturnsEarly(typesToResolve[j], 0, vis)}
    IN  IF rest = {} THEN 0 ELSE CHOOSE j \in rest : \A k \in rest : j <= k

\* Lines 146-158 with 234-239: the second walk runs to its next await, or returns.
OtherRunsOn(i, vis, structs, ifaces) ==
    LET j == NextToResolve(i, vis)
    IN  IF j = 0
        THEN /\ visited' = vis
             /\ other' = [pc |-> "done", idx |-> Len(typesToResolve),
                          externalStructs |-> structs, externalInterfaces |-> ifaces]
        ELSE /\ visited' = vis \cup {CallKey(typesToResolve[j])}
             /\ other' = [pc |-> "awaiting", idx |-> j,
                          externalStructs |-> structs, externalInterfaces |-> ifaces]

\* Lines 94-158: the second call clears visited and runs to its first await.
OtherResolveFileDependencies ==
    /\ earlier # << >>
    /\ FirstWalkWaits
    /\ other.pc = "idle"
    /\ OtherRunsOn(0, {}, << >>, << >>)
    /\ UNCHANGED <<decls, earlier, walkPc, maxDepth, typesToResolve, topIdx, stack,
                   externalStructs, externalInterfaces, nodes, queries, failures,
                   lspVars, otherVars>>

\* Lines 260-394 at depth 0 = maxDepth: the oracle answers the second walk, whose
\* nested calls all return at the depth test; its loop goes on.
OtherOracleReturn ==
    /\ other.pc = "awaiting"
    /\ FirstWalkWaits \/ walkPc = "done"
    /\ LET c        == typesToResolve[other.idx]
           resolved == resolveAtPosition(c.document, c.position, "ok")
       IN  /\ OtherRunsOn(other.idx, visited,
                          IF resolved.struct /= ""
                          THEN AddExternal(other.externalStructs, resolved.struct,
                                           resolved.sourceUri, c.currentUri)
                          ELSE other.externalStructs,
                          IF resolved.iface /= ""
                          THEN AddExternal(other.externalInterfaces, resolved.iface,
                                           resolved.sourceUri, c.currentUri)
                          ELSE other.externalInterfaces)
           /\ definitionCache' = DefinitionCacheAfter(c.document, c.position, "ok")
           /\ goFileCache' = GoFileCacheAfter(c.document, c.position, "ok")
           /\ stamp' = Stamped(DOMAIN DefinitionCacheAfter(c.document, c.position, "ok")
                                  \cup DOMAIN GoFileCacheAfter(c.document, c.position, "ok"))
    /\ UNCHANGED <<decls, earlier, walkPc, maxDepth, typesToResolve, topIdx, stack,
                   externalStructs, externalInterfaces, nodes, queries, failures,
                   otherVars>>

\* a new session on the same unit, in which a second walk may be started
StartShared == StartAgain(decls)

ShareInit ==
    /\ \E fa \in FieldSeqs("A"), fb \in FieldSeqs("B"), kc \in Kinds, dc \in {D1, D2} :
          /\ Len(fa) = MaxFields
          /\ Len(fb) <= 1
          /\ decls = World(fa, fb, kc, dc, << >>)
    /\ Constructed
    /\ NoConversion

ShareNext ==
    \/ \E md \in MaxDepths : ResolveFileDependencies(md)
    \/ CallTop
    \/ OracleReturn("ok")
    \/ CallChild
    \/ Finish
    \/ ReturnGraph
    \/ StartShared
    \/ OtherResolveFileDependencies
    \/ OtherOracleReturn

ShareSpec == ShareInit /\ [][ShareNext]_vars

\* C28: a walk that was interleaved at its awaits with a second walk on the
\* same resolver returns the same externalStructs and externalInterfaces as
\* the walk over the same declarations, with the same maxDepth, run alone.
C28_WalksDoNotInterfere ==
    (walkPc = "done" /\ earlier # << >> /\ maxDepth = earlier[1].maxDepth) =>
        /\ Names(externalStructs) = earlier[1].structs
        /\ Names(externalInterfaces) = earlier[1].interfaces

(***************************************************************************)
(* An edit of the document while TypeEnricher.enrichType awaits the oracle.*)
(***************************************************************************)
EditNext ==
    \/ \E d \in OpenDocs, p \in CachePositions, ms \in getConfiguredTimeout :
          StartEnrichType(d, p, ms)
    \/ \E i \in 1..Len(calls), found \in BOOLEAN : OracleAnswers(i, found)
    \/ \E i \in 1..Len(calls) : TimeoutFires(i)
    \/ \E i \in 1..Len(calls) : LateAnswer(i)
    \/ \E d \in OpenDocs : OnDidChangeTextDocument(d)
    \/ \E dt \in {1, DEFAULT_TIMEOUT} : Tick(dt)

EditSpec == CacheInit /\ [][EditNext]_vars

\* the hover queries of enrichType issued before the last edit of their document
IssuedBeforeEdit ==
    {i \in 1..Len(calls) : /\ calls[i].kind = "hover"
                           /\ calls[i].version < docVersion[calls[i].document]}

\* C29: when the document was invalidated by an edit while an enrichType query
\* was in flight, the cache holds no entry produced by that query, and a get
\* after the edit returns no pre-edit type information.
C29_NoEntryFromQueryBeforeEdit ==
    /\ \A i \in IssuedBeforeEdit :
          ~(/\ calls[i].key \in DOMAIN typeCache
            /\ typeCache[calls[i].key].info = calls[i].version)
    /\ (lastGet.table = "typeCache" /\ lastGet.hit) =>
           lastGet.cachedVersion = lastGet.version

(***************************************************************************)
(* What invalidate(d) leaves alone.                                        *)
(***************************************************************************)
\* the entries of the table whose key is derived from another document than d
\* are in the table after the step, unchanged
KeptFor(before, after, d) ==
    \A k \in DOMAIN before :
        DocOfKey(k) /= d => (k \in DOMAIN after /\ after[k] = before[k])

InvalidateKeepsOthers(d) ==
    (TypeCacheInvalidate(d) \/ InvalidateDocument(d)) =>
        /\ KeptFor(typeCache, typeCache', d)
        /\ KeptFor(typeResolutionCache, typeResolutionCache', d)
        /\ KeptFor(definitionCache, definitionCache', d)
        /\ KeptFor(goFileCache, goFileCache', d)
        /\ \A k \in TypeCacheKeys \cup TypeResolutionKeys :
              DocOfKey(k) /= d => (ReadHit(k)' = ReadHit(k))

\* C30: invalidate(d) changes no entry of any table whose key is derived from
\* a document d' other than d, also when the identifier of d is a prefix of
\* the identifier of d', and a get for a key of d' returns after it what it
\* returned before.
C30_InvalidateFrame == [][\A d \in CacheDocs : InvalidateKeepsOthers(d)]_vars
====
